---- MODULE Spec2Model ----
(***************************************************************************)
(* Pixelblaze-Async: the device session of PixelblazeBase.                 *)
(*                                                                         *)
(* The session is one asyncio event loop.  A coroutine runs without        *)
(* interruption from one await that suspends to the next, so every action  *)
(* below is the code between two suspension points of one task.  The tasks *)
(* are the websocket reader (_async_websocket), the callers of _ws_send    *)
(* (the poll loop, the command loop) and the timers of the loop            *)
(* (wait_for deadlines, call_later cache evictions).                       *)
(*                                                                         *)
(* Time is counted in units of 5 seconds, and every timer of the loop is   *)
(* kept as the time left until it fires.  The loop runs every task that is *)
(* ready and every timer that is due before time advances.                 *)
(***************************************************************************)
EXTENDS Integers, Sequences, FiniteSets, TLC

\* ---------------------------------------------------------------- constants
\* self.cache_timeout = 5 seconds
cache_timeout == 1
\* _ws_send(..., timeout=10, ...) seconds
timeout == 2
\* data_type['thumbnail_jpg'], data_type['program_list']
thumbnail_jpg == 4
program_list == 7
\* flag bits of byte 1 of a binary chunk
START == 1
CONT == 2
END == 4
\* the bytes "\t" and "\n" that separate the fields and records of a program list
TAB == 9
NL == 10

\* ------------------------------------------------------------------- bounds
\* frames the reader may have queued and not yet handed to a request
MaxQ == 1
\* binary chunks the device sends while one request waits
MaxChunks == 3
\* bytes that self.bin_data holds before the device sends no further START chunk
MaxAcc == 3
\* messages of the broker that wait in self.q
MaxInbox == 2

\* text frames of which an observer keeps the order
MaxFrames == 3
\* how far below 0 and above 31 the brightness of the controller goes
MaxOver == 4
\* _async_websocket tasks that exist at one time
MaxWs == 2
\* transport failures in a row that an observer counts
MaxFails == 2

\* the tasks that call _ws_send: the poll loop and the command loop
Callers == {"poll", "cmd"}

\* ------------------------------------------------------------------- values
\* Python's None
None == [t |-> "none"]
\* a JSON object (dict) and a bare JSON value
Obj(o) == [t |-> "obj", o |-> o]
Val(v) == [t |-> "val", v |-> v]
\* a bytes value, and a dict: the id -> name dict of a program list or the
\* object that a frame carries under a key
Bytes(b) == [t |-> "bytes", b |-> b]
Dict(d) == [t |-> "dict", d |-> d]
\* the tuple (json_data, bin_data)
Pair(j, b) == [t |-> "pair", j |-> j, b |-> b]
\* the empty dict {}
Empty == [k \in {} |-> 0]

\* a number, as a fraction with a positive denominator
Number(num, den) == [num |-> num, den |-> den]

Range(seq) == {seq[i] : i \in DOMAIN seq}

\* dict.update: the entries of new replace those of old
Update(old, new) ==
    [k \in DOMAIN old \cup DOMAIN new |-> IF k \in DOMAIN new THEN new[k] ELSE old[k]]

\* ------------------------------------------------------------- the requests
\* _ws_send(msg, expect, timeout, all, binary, cache) as its callers issue it;
\* key is the first key of msg, the cache key of _get_cache
Request(key, expect, all, binary, cache) ==
    [key |-> key, expect |-> expect, all |-> all, binary |-> binary, cache |-> cache]
\* _get_hardware_config
getConfig == Request("getConfig", <<"name", "activeProgram">>, TRUE, 0, TRUE)
\* getVars
getVars == Request("getVars", <<"vars">>, FALSE, 0, FALSE)
\* startSequencer
startSequencer == Request("sequencerMode", <<"sequencerMode", "runSequencer">>, FALSE, 0, FALSE)
\* _get_patterns
listPrograms == Request("listPrograms", <<>>, FALSE, program_list, TRUE)
\* getPreviewImg
getPreviewImg == Request("getPreviewImg", <<>>, FALSE, thumbnail_jpg, FALSE)
\* a direct _ws_send that awaits a key and a binary payload
getBoth == Request("getSources", <<"ack">>, FALSE, thumbnail_jpg, FALSE)
\* setBrightness: nothing awaited
setBrightness == Request("brightness", <<>>, FALSE, 0, FALSE)

\* the cache keys
MsgKeys == {"getConfig", "getVars", "sequencerMode", "listPrograms", "getPreviewImg",
            "getSources", "brightness", "runSequencer"}

VARIABLES
    ws,         \* TRUE while self.ws is an open websocket (getWSConnected)
    q_data,     \* self.q_data: text frames are queued for a request
    q_binary,   \* self.q_binary: binary frames are queued for a request
    json_q,     \* self.json_q
    binary_q,   \* self.binary_q
    bin_data,   \* self.bin_data, the accumulator of _decode_binary_data
    cache,      \* self.cache, the dict self.cache names now
    timers,     \* the call_later(cache_timeout, self.cache.pop, key, None) handles
    pc,         \* where each caller is: "idle", "json", "bin", "done" (_ws_send
                \* has returned) or "returned" (the operation that called it has)
    req,        \* the request each caller issued last
    loc,        \* the locals of each caller's _expect
    getters,    \* the callers suspended in a get on an empty queue, first come first
    ready,      \* the callers whose _expect the loop will run, in this order
    ret,        \* what each caller's last _ws_send returned
    obs,        \* per caller, what an observer of the call has seen
    last,       \* per cache key, the value stored last and how long ago
    upload,     \* the last load_binary_file: its outcome and what it returned
    q,          \* self.q, the inbound messages of the broker not yet taken
    mqttc,      \* TRUE while self.mqttc is a broker client
    command,    \* where _process_q is, and the message it took last (for an
                \* observer: failed, a message so far was invalid, raised or
                \* timed out)
    published,  \* what _process_q has published since it took that message
    auto_reconnect, \* self.auto_reconnect
    _exit,      \* self._exit
    tasks,      \* self.tasks: the names registered, and which reader 'ws' names
    running,    \* the tasks start() made that have not finished
    wstask,     \* every _async_websocket task there is, and where it is
    sock,       \* the reader whose websocket self.ws names, 0 for None
    api,        \* where a _stop or a disconnect in progress is
    received,   \* for an observer: the text frames the reader has
                \* dispatched and published, in the order they came
    lookup,     \* the last _get_pattern_id_and_name: what it was given and
                \* what it returned
    flash_save_enabled, \* self.flash_save_enabled
    transmitted, \* the last command a set operation sent: what it was
                \* called with and the frame's value and save field
    json_out,   \* self.json_out
    history,    \* self.history: composed key -> str of the value seen last
    decoding,   \* the pairs of a frame that _decode_topics has yet to visit
    ip,         \* self.ip and self.ws_url are set
    starts,     \* for an observer: start() has been called
    now,        \* time.time(), in units of LIST_CHECK_INTERVAL
    devices,    \* the enumerator's self.devices: sender id -> record
    autoSync,   \* the enumerator's self.autoSync
    DEVICE_TIMEOUT, \* the enumerator's self.DEVICE_TIMEOUT
    new_data,   \* the enumerator's self.new_data is set
    sendto,     \* the datagram handed to self.transport.sendto last; n is
                \* flipped by every send
    sweep,      \* _updatePixelblazeList: the time left of its sleep, and for
                \* an observer the ids its last sweep removed
    heard,      \* for an observer: a time-sync packet has come since
                \* enableTimesync() was called last
    archive,    \* the zip file: its members in the order they were written
    saved,      \* for an observer: the (id, binary) pairs downloaded for it
    loaded,     \* for an observer: the (id, binary) pairs uploaded from it
    session,    \* for an observer: _stop, or disconnect(), has returned and
                \* nothing was started or connected since, the transport
                \* failures in a row, a failure not yet
                \* followed by a new attempt or by the cancelling of the tasks,
                \* a bit that every call of start() flips, and whether the
                \* last call of start() found self.tasks not empty
    self_name,  \* TRUE when self.name holds the name the device gave
    setup,      \* where _setup_client is: "waitws" (in _waitForWS), "name"
                \* (in its loop `while not self.name`) or "none"
    subscribed, \* for an observer: the name in the topic _on_connect
                \* subscribed to last ("" before it has run)
    opened      \* for an observer: the websocket has connected since
                \* start() made the tasks

\* the session's side of the device: the websocket, the requests, the cache
devicevars == <<ws, q_data, q_binary, json_q, binary_q, bin_data, cache, timers,
                pc, req, loc, getters, ready, ret, obs, last, upload>>
\* the command loop and the broker client
brokervars == <<q, mqttc, command, published>>
\* what the requests to the device do not touch
\* the lifecycle of the session: its tasks and its connection
sessionvars == <<auto_reconnect, _exit, tasks, running, wstask, sock, api, session>>
\* the permission to save to flash and the commands that carry a save field
flashvars == <<flash_save_enabled, transmitted>>
\* the republishing of the frames
topicvars == <<json_out, history, decoding>>
\* the address of the device
addressvars == <<ip, starts>>
\* the discovery of devices
enumvars == <<now, devices, autoSync, DEVICE_TIMEOUT, new_data, sendto, sweep, heard>>
\* the backup of patterns
backupvars == <<archive, saved, loaded>>
\* the making of the broker client
setupvars == <<self_name, setup, subscribed, opened>>
others == <<brokervars, sessionvars, received, lookup, flashvars, topicvars, addressvars,
            enumvars, backupvars, setupvars>>

vars == <<ws, q_data, q_binary, json_q, binary_q, bin_data, cache, timers,
          pc, req, loc, getters, ready, ret, obs, last, upload, others>>

\* ------------------------------------------------------------------ _expect
\* the locals of _expect that live across its awaits: the index ki of the key
\* it waits for (for key in keys) and json_data.  result and bin_data are
\* assigned by every get, so they carry nothing from one await to the next.
\* left is the time left until the wait_for around _expect gives up.
NoLocals == [ki |-> 0, json_data |-> Empty, left |-> 0]

\* if all: json_data.update(result)
\* elif not isinstance(result[key], dict): json_data.update({key: result[key]})
\* else: json_data.update(result[key])
TakeKey(json_data, result, key, all) ==
    IF all THEN Update(json_data, result)
    ELSE IF result[key].t # "dict" THEN Update(json_data, [k \in {key} |-> result[key]])
    ELSE Update(json_data, result[key].d)

\* the loop with `if` in place of `while`: a key the frame lacks is passed over
RECURSIVE ScanKeysIf(_, _, _, _)
ScanKeysIf(r, ki, result, json_data) ==
    IF ki > Len(r.expect) THEN [ki |-> ki, json_data |-> json_data]
    ELSE IF r.expect[ki] \in DOMAIN result
         THEN ScanKeysIf(r, ki + 1, result, TakeKey(json_data, result, r.expect[ki], r.all))
         ELSE ScanKeysIf(r, ki + 1, result, json_data)

\* for key in keys: while not key in result.keys(): result = await json_q.get()
\* run on the frame result from key number ki, until a key is missing from the
\* frame (the next get) or the keys are exhausted (ki = Len(expect) + 1)
RECURSIVE ScanKeys(_, _, _, _)
ScanKeys(r, ki, result, json_data) ==
    IF ki > Len(r.expect) THEN [ki |-> ki, json_data |-> json_data]
    ELSE IF r.expect[ki] \in DOMAIN result
         THEN ScanKeys(r, ki + 1, result, TakeKey(json_data, result, r.expect[ki], r.all))
         ELSE [ki |-> ki, json_data |-> json_data]

\* if len(json_data.keys()) == 1 and not all: json_data = the one value
Unwrap(r, json_data) ==
    IF Cardinality(DOMAIN json_data) = 1 /\ ~r.all
    THEN json_data[CHOOSE k \in DOMAIN json_data : TRUE]
    ELSE Obj(json_data)

\* ------------------------------------------------------ _decode_binary_data
\* bin_data[1] & flag
HasFlag(chunk, flag) == (chunk[2] \div flag) % 2 = 1
\* bin_data[2:]
Payload(chunk) == SubSeq(chunk, 3, Len(chunk))

\* str.split(sep) of the characters s[i..]: cur is the field being read
RECURSIVE SplitFrom(_, _, _, _)
SplitFrom(s, sep, i, cur) ==
    IF i > Len(s) THEN <<cur>>
    ELSE IF s[i] = sep THEN <<cur>> \o SplitFrom(s, sep, i + 1, <<>>)
         ELSE SplitFrom(s, sep, i + 1, Append(cur, s[i]))
Split(s, sep) == SplitFrom(s, sep, 1, <<>>)

\* {pat[0]: pat[1] for pat in listFrame if len(pat) == 2}, a later record of
\* the same id replacing an earlier one
RECURSIVE DictOf(_, _, _)
DictOf(lines, i, d) ==
    IF i > Len(lines) THEN d
    ELSE LET pat == Split(lines[i], TAB) IN
         DictOf(lines, i + 1,
                IF Len(pat) = 2 THEN Update(d, [k \in {pat[1]} |-> pat[2]]) ELSE d)

\* the program list of the accumulated bytes (all below 128, so that
\* decode("utf-8") maps each byte to the character of the same code)
ParseList(b) == DictOf(Split(b, NL), 1, Empty)

\* if bin_data[1] & self.START: self.bin_data += bin_data[2:]
Accumulate(acc, chunk) == IF HasFlag(chunk, START) THEN acc \o Payload(chunk) ELSE acc

\* _decode_binary_data(bin_data) with self.bin_data = acc0 on entry:
\* acc is self.bin_data on return, out the value returned
_decode_binary_data(acc0, chunk) ==
    LET acc  == Accumulate(IF acc0 = None THEN <<>> ELSE acc0.b, chunk)
        data == IF ~HasFlag(chunk, END) THEN Bytes(<<>>)
                ELSE IF chunk[1] = program_list THEN Dict(ParseList(acc))
                ELSE Bytes(acc)
        truthy == IF data.t = "dict" THEN data.d # Empty ELSE data.b # <<>>
    IN  [acc |-> IF HasFlag(chunk, END) THEN None ELSE Bytes(acc),
         out |-> IF truthy THEN data ELSE Bytes(chunk)]

\* the turn without the test of the type byte: every chunk is decoded
BinaryTurnAnyType(acc0, binary, chunk) ==
    LET dec == _decode_binary_data(acc0, chunk) IN
    [acc |-> dec.acc, bin |-> dec.out,
     more |-> IF dec.out.t = "dict" THEN FALSE ELSE dec.out.b[1] = binary]

\* one turn of `while bin_data[0] == binary` of _expect on the chunk it got:
\* acc is self.bin_data afterwards, bin the local bin_data, more whether the
\* loop goes round again
BinaryTurn(acc0, binary, chunk) ==
    IF chunk[1] = binary
    THEN LET dec == _decode_binary_data(acc0, chunk) IN
         [acc |-> dec.acc, bin |-> dec.out,
          more |-> IF dec.out.t = "dict" THEN FALSE
                   ELSE dec.out.b[1] = binary]
    ELSE [acc |-> acc0, bin |-> Bytes(<<binary>>), more |-> TRUE]

\* ------------------------------------------------------------------- cache
\* TimerLate is a handle that is due one unit after cache_timeout.
\* the handle of call_later(self.cache_timeout, self.cache.pop, key, None).
\* self.cache.pop is bound when the handle is made: live says that the dict
\* it belongs to is still the one self.cache names.
TimerLate(key) == [key |-> key, left |-> cache_timeout + 1, live |-> TRUE]
Timer(key) == [key |-> key, left |-> cache_timeout, live |-> TRUE]

\* the cache with nothing in it
NoCache == [k \in MsgKeys |-> None]
\* no value has been stored under any key since the cache was made
NoLast == [k \in MsgKeys |-> [val |-> None, age |-> -1]]

\* _cache(key, value, cache): the value is returned whatever happens
_cache(key, value, flag) ==
    IF flag /\ cache_timeout > 0
    THEN /\ cache' = [cache EXCEPT ![key] = value]
         /\ timers' = timers \cup {Timer(key)}
         /\ last' = [last EXCEPT ![key] = [val |-> value, age |-> 0]]
    ELSE UNCHANGED <<cache, timers, last>>

\* a lookup that finds nothing
_get_cache_miss(r) == None
\* _get_cache(msg): self.cache.get(cache_key)
_get_cache(r) == cache[r.key]

\* _clear_cache: self.cache = {}, a new dict; the handles made before keep the old one
_clear_cache ==
    /\ cache' = NoCache
    /\ timers' = {[tm EXCEPT !.live = FALSE] : tm \in timers}
    /\ last' = NoLast

\* the loop runs a handle that is due: dict.pop(key, None)
call_later_pop(tm) ==
    /\ UNCHANGED others
    /\ tm \in timers
    /\ tm.left = 0
    /\ timers' = timers \ {tm}
    /\ cache' = IF tm.live THEN [cache EXCEPT ![tm.key] = None] ELSE cache
    /\ UNCHANGED <<ws, q_data, q_binary, json_q, binary_q, bin_data,
                   pc, req, loc, getters, ready, ret, obs, last, upload>>

\* ---------------------------------------------------------------- _ws_send
\* what _ws_send returns when it has nothing: (None, None) or None
NoResult(r) == IF r.expect # <<>> /\ r.binary # 0 THEN Pair(None, None) ELSE None

\* a call is in flight while its _expect is awaited
InFlight(c) == pc[c] \in {"json", "bin"}

\* the observer's record of a call: whether a frame was transmitted, how the
\* call ended and how long before its deadline (rem), the awaited keys that
\* the websocket received before the deadline while the call was in flight
\* (arrived), the awaited keys in the frames handed to the call (got), the
\* chunks handed to it (fed), self.bin_data when it was issued (acc), the
\* age of the cache entry it was answered from (age), whether another
\* call in flight at the same time awaited one of its keys (shared), the
\* frames at the head of json_q that were there when it was transmitted
\* (old), and whether it took an awaited key from one of them (stale)
NoObs == [sent |-> FALSE, how |-> "none", rem |-> 0, arrived |-> {}, got |-> {},
          fed |-> <<>>, acc |-> None, age |-> -1, shared |-> FALSE,
          old |-> 0, stale |-> FALSE]

\* the calls in flight that await a key of request r
Rivals(c, r) ==
    {d \in Callers \ {c} : InFlight(d) /\ Range(req[d].expect) \cap Range(r.expect) # {}}

\* the sequence without caller c
Without(seq, c) == SelectSeq(seq, LAMBDA d : d # c)

\* a test of the connection that always finds it open
getWSConnected_always == TRUE
\* getWSConnected(): bool(not self.ws.closed if self.ws else False)
getWSConnected == ws

\* _ws_send(msg, expect, timeout, all, binary, cache) up to its first await
\* that suspends: the cached value, or the send and the entry into
\* wait_for(_expect(...), timeout), which makes _expect a task of its own, or
\* nothing when the websocket is not open
_ws_send_call(c, r) ==
    /\ pc[c] \in {"idle", "done", "returned"}
    /\ req' = [req EXCEPT ![c] = r]
    /\ UNCHANGED <<ws, json_q, binary_q, bin_data, cache, timers, last, upload, getters>>
    /\ IF _get_cache(r) # None
       THEN /\ pc' = [pc EXCEPT ![c] = "done"]
            /\ ret' = [ret EXCEPT ![c] = _get_cache(r)]
            /\ loc' = [loc EXCEPT ![c] = NoLocals]
            /\ obs' = [obs EXCEPT ![c] = [NoObs EXCEPT !.how = "cache",
                                                        !.age = last[r.key].age]]
            /\ UNCHANGED <<q_data, q_binary, ready>>
       ELSE IF getWSConnected
       THEN /\ q_data' = (q_data \/ r.expect # <<>>)
            /\ q_binary' = (q_binary \/ r.binary # 0)
            /\ IF r.expect # <<>> \/ r.binary # 0
               THEN /\ pc' = [pc EXCEPT ![c] = IF r.expect # <<>> THEN "json" ELSE "bin"]
                    /\ loc' = [loc EXCEPT ![c] = [ki |-> 1, json_data |-> Empty,
                                                  left |-> timeout]]
                    /\ ret' = [ret EXCEPT ![c] = None]
                    /\ ready' = Append(ready, c)
                    /\ obs' = [d \in Callers |->
                                 IF d = c
                                 THEN [NoObs EXCEPT !.sent = TRUE, !.how = "wait",
                                                    !.acc = bin_data,
                                                    !.old = Len(json_q),
                                                    !.shared = Rivals(c, r) # {}]
                                 ELSE IF d \in Rivals(c, r)
                                 THEN [obs[d] EXCEPT !.shared = TRUE]
                                 ELSE obs[d]]
               ELSE /\ pc' = [pc EXCEPT ![c] = "done"]
                    /\ ret' = [ret EXCEPT ![c] = NoResult(r)]
                    /\ loc' = [loc EXCEPT ![c] = NoLocals]
                    /\ obs' = [obs EXCEPT ![c] = [NoObs EXCEPT !.sent = TRUE, !.how = "nowait"]]
                    /\ UNCHANGED ready
       ELSE /\ pc' = [pc EXCEPT ![c] = "done"]
            /\ ret' = [ret EXCEPT ![c] = NoResult(r)]
            /\ loc' = [loc EXCEPT ![c] = NoLocals]
            /\ obs' = [obs EXCEPT ![c] = [NoObs EXCEPT !.how = "closed"]]
            /\ UNCHANGED <<q_data, q_binary, ready>>

\* _ws_send called by a task while nothing else of the session moves
_ws_send(c, r) ==
    /\ UNCHANGED others
    /\ _ws_send_call(c, r)

\* the keys loop of _expect from key number ki on the frames of queue qu:
\* `await self.json_q.get()` does not suspend while the queue holds a frame.
\* It ends with the keys exhausted or with the queue empty.
RECURSIVE DrainJson(_, _, _, _, _)
DrainJson(r, ki, json_data, qu, got) ==
    IF ki > Len(r.expect) \/ qu = <<>>
    THEN [ki |-> ki, json_data |-> json_data, q |-> qu, got |-> got]
    ELSE LET s == ScanKeys(r, ki, Head(qu), json_data) IN
         DrainJson(r, s.ki, s.json_data, Tail(qu),
                   got \cup (DOMAIN Head(qu) \cap Range(r.expect)))

\* the loop `while bin_data[0] == binary` of _expect on the chunks of queue qu,
\* with self.bin_data = acc.  It ends with the loop left (more = FALSE) or
\* with the queue empty.
RECURSIVE DrainBinary(_, _, _, _)
DrainBinary(acc, binary, qu, fed) ==
    IF qu = <<>>
    THEN [acc |-> acc, q |-> qu, fed |-> fed, bin |-> Bytes(<<binary>>), more |-> TRUE]
    ELSE LET turn == BinaryTurn(acc, binary, Head(qu)) IN
         IF turn.more
         THEN DrainBinary(turn.acc, binary, Tail(qu), Append(fed, Head(qu)))
         ELSE [acc |-> turn.acc, q |-> Tail(qu), fed |-> Append(fed, Head(qu)),
               bin |-> turn.bin, more |-> FALSE]

\* the task of _expect runs: from its start, or from the get it was woken
\* in, to its next get on an empty queue (it joins the getters of that queue)
\* or to its return into _ws_send, which caches and returns
_expect(c) ==
    /\ UNCHANGED others
    /\ ready # <<>>
    /\ c = Head(ready)
    /\ LET r == req[c]
           j == IF pc[c] = "json"
                THEN DrainJson(r, loc[c].ki, loc[c].json_data, json_q, obs[c].got)
                ELSE [ki |-> loc[c].ki, json_data |-> loc[c].json_data, q |-> json_q,
                      got |-> obs[c].got]
           keysDone == j.ki > Len(r.expect)
           b == IF keysDone /\ r.binary # 0
                THEN DrainBinary(bin_data, r.binary, binary_q, obs[c].fed)
                ELSE [acc |-> bin_data, q |-> binary_q, fed |-> obs[c].fed,
                      bin |-> Bytes(<<r.binary>>), more |-> FALSE]
           taken == Len(json_q) - Len(j.q)
           left(d) == IF obs[d].old > taken THEN obs[d].old - taken ELSE 0
           seen == [d \in Callers |->
                      IF d = c
                      THEN [obs[c] EXCEPT
                               !.got = j.got, !.fed = b.fed, !.old = left(c),
                               !.stale = @ \/ \E n \in 1 .. (obs[c].old - left(c)) :
                                                 DOMAIN json_q[n] \cap Range(r.expect) # {}]
                      ELSE IF InFlight(d) THEN [obs[d] EXCEPT !.old = left(d)]
                      ELSE obs[d]]
           value == IF r.binary = 0 THEN Unwrap(r, j.json_data)
                    ELSE IF r.expect = <<>> THEN b.bin
                    ELSE Pair(Unwrap(r, j.json_data), b.bin)
       IN  /\ json_q' = j.q
           /\ binary_q' = b.q
           /\ bin_data' = b.acc
           /\ q_data' = IF pc[c] = "json" /\ keysDone THEN FALSE ELSE q_data
           /\ ready' = Tail(ready)
           /\ IF keysDone /\ ~b.more
              THEN /\ q_binary' = IF r.binary # 0 THEN FALSE ELSE q_binary
                   /\ pc' = [pc EXCEPT ![c] = "done"]
                   /\ ret' = [ret EXCEPT ![c] = value]
                   /\ loc' = [loc EXCEPT ![c] = NoLocals]
                   /\ obs' = [seen EXCEPT ![c].how = "data", ![c].rem = loc[c].left]
                   /\ _cache(r.key, value, r.cache /\ (r.expect = <<>> \/ r.binary = 0))
                   /\ UNCHANGED getters
              ELSE /\ pc' = [pc EXCEPT ![c] = IF keysDone THEN "bin" ELSE "json"]
                   /\ loc' = [loc EXCEPT ![c].ki = j.ki, ![c].json_data = j.json_data]
                   /\ obs' = seen
                   /\ getters' = Append(getters, c)
                   /\ UNCHANGED <<q_binary, ret, cache, timers, last>>
    /\ UNCHANGED <<ws, req, upload>>

\* Queue._wakeup_next: the first getter of the queue that the callers at pc
\* state wait on is made ready
Woken(state) ==
    LET waiting == SelectSeq(getters, LAMBDA d : pc[d] = state) IN
    IF waiting = <<>> THEN <<>> ELSE <<Head(waiting)>>

\* the timeout with a deadline one unit short
wait_for_timeout_short(c) ==
    /\ UNCHANGED others
    /\ InFlight(c)
    /\ loc[c].left <= 1
    /\ q_data' = FALSE
    /\ q_binary' = FALSE
    /\ pc' = [pc EXCEPT ![c] = "done"]
    /\ ret' = [ret EXCEPT ![c] = NoResult(req[c])]
    /\ loc' = [loc EXCEPT ![c] = NoLocals]
    /\ obs' = [obs EXCEPT ![c].how = "timeout", ![c].rem = loc[c].left]
    /\ getters' = Without(getters, c)
    /\ ready' = Without(ready, c)
    /\ UNCHANGED <<ws, json_q, binary_q, bin_data, cache, timers, req, last, upload>>

\* a timeout that stores a placeholder under the key of the request
wait_for_timeout_stores(c) ==
    /\ UNCHANGED others
    /\ InFlight(c)
    /\ loc[c].left = 0
    /\ q_data' = FALSE
    /\ q_binary' = FALSE
    /\ pc' = [pc EXCEPT ![c] = "done"]
    /\ ret' = [ret EXCEPT ![c] = NoResult(req[c])]
    /\ loc' = [loc EXCEPT ![c] = NoLocals]
    /\ obs' = [obs EXCEPT ![c].how = "timeout", ![c].rem = loc[c].left]
    /\ getters' = Without(getters, c)
    /\ ready' = Without(ready, c)
    /\ _cache(req[c].key, Val(0), req[c].cache)
    /\ UNCHANGED <<ws, json_q, binary_q, bin_data, req, upload>>

\* the deadline of wait_for has come: _expect is cancelled and _ws_send runs
\* `except asyncio.TimeoutError`.  A getter that was woken and is cancelled
\* before it ran hands the wake-up to the next getter of its queue.
wait_for_timeout(c) ==
    /\ UNCHANGED others
    /\ InFlight(c)
    /\ loc[c].left = 0
    /\ q_data' = FALSE
    /\ q_binary' = FALSE
    /\ pc' = [pc EXCEPT ![c] = "done"]
    /\ ret' = [ret EXCEPT ![c] = NoResult(req[c])]
    /\ loc' = [loc EXCEPT ![c] = NoLocals]
    /\ obs' = [obs EXCEPT ![c].how = "timeout", ![c].rem = loc[c].left]
    /\ LET handOn == IF c \in Range(ready)
                        /\ (IF pc[c] = "json" THEN json_q ELSE binary_q) # <<>>
                     THEN Woken(pc[c]) ELSE <<>>
       IN  /\ getters' = SelectSeq(getters, LAMBDA d : d # c /\ d \notin Range(handOn))
           /\ ready' = Without(ready, c) \o handOn
    /\ UNCHANGED <<ws, json_q, binary_q, bin_data, cache, timers, req, last, upload>>

\* --------------------------------------------------------- _async_websocket
\* the callers whose wait has not reached its deadline see the frame arrive
Arrive(keys) ==
    [c \in Callers |->
        IF InFlight(c) /\ loc[c].left > 0
        THEN [obs[c] EXCEPT !.arrived = @ \cup (keys \cap Range(req[c].expect))]
        ELSE obs[c]]

\* a reader that puts the frame before the frames that wait
dispatch_text_first(frame) ==
    /\ obs' = Arrive(DOMAIN frame)
    /\ IF q_data
       THEN /\ json_q' = <<frame>> \o json_q
            /\ getters' = SelectSeq(getters, LAMBDA d : d \notin Range(Woken("json")))
            /\ ready' = ready \o Woken("json")
       ELSE UNCHANGED <<json_q, getters, ready>>
    /\ UNCHANGED <<ws, q_data, q_binary, binary_q, bin_data, cache, timers,
                   pc, req, loc, ret, last, upload>>

\* msg.type == TEXT: if self.q_data: await self.json_q.put(msg_json)
dispatch_text(frame) ==
    /\ obs' = Arrive(DOMAIN frame)
    /\ IF q_data
       THEN /\ json_q' = Append(json_q, frame)
            /\ getters' = SelectSeq(getters, LAMBDA d : d \notin Range(Woken("json")))
            /\ ready' = ready \o Woken("json")
       ELSE UNCHANGED <<json_q, getters, ready>>
    /\ UNCHANGED <<ws, q_data, q_binary, binary_q, bin_data, cache, timers,
                   pc, req, loc, ret, last, upload>>

\* a text frame comes while the websocket is open, and what it publishes is
\* left aside
ws_text(frame) ==
    /\ UNCHANGED others
    /\ ws
    /\ Len(json_q) < MaxQ
    /\ dispatch_text(frame)

\* msg.type == BINARY: if self.q_binary: await self.binary_q.put(msg_bin)
ws_binary(chunk) ==
    /\ UNCHANGED others
    /\ ws
    /\ Len(binary_q) < MaxQ
    /\ \A c \in Callers : InFlight(c) => Len(obs[c].fed) + Len(binary_q) < MaxChunks
    /\ (HasFlag(chunk, START) /\ bin_data # None)
          => Len(bin_data.b) + Len(Payload(chunk)) <= MaxAcc
    /\ q_binary
    /\ binary_q' = Append(binary_q, chunk)
    /\ getters' = SelectSeq(getters, LAMBDA d : d \notin Range(Woken("bin")))
    /\ ready' = ready \o Woken("bin")
    /\ UNCHANGED <<ws, q_data, q_binary, json_q, bin_data, cache, timers,
                   pc, req, loc, ret, obs, last, upload>>

\* the transport closes: self.ws.closed, then self.ws = None
ws_closed ==
    /\ UNCHANGED others
    /\ ws
    /\ ws' = FALSE
    /\ UNCHANGED <<q_data, q_binary, json_q, binary_q, bin_data, cache, timers,
                   pc, req, loc, ret, obs, last, upload, getters, ready>>

\* --------------------------------------------------------- load_binary_file
\* how an upload can end: no binary to send, the POST answered with a
\* status, or the POST raised
Outcomes == {[binary |-> FALSE, raised |-> FALSE, status |-> 0],
             [binary |-> TRUE, raised |-> FALSE, status |-> 200],
             [binary |-> TRUE, raised |-> FALSE, status |-> 500],
             [binary |-> TRUE, raised |-> TRUE, status |-> 0]}
PatternIds == {"p1", "p2"}

\* an upload that empties the cache whatever the device answers
load_binary_file_always(programId, outcome) ==
    /\ UNCHANGED others
    /\ _clear_cache
    /\ upload' = [n |-> 1 - upload.n, id |-> programId, had |-> cache # NoCache,
                  outcome |-> outcome,
                  ret |-> IF outcome.binary /\ ~outcome.raised /\ outcome.status = 200
                          THEN Val(programId) ELSE None]
    /\ UNCHANGED <<ws, q_data, q_binary, json_q, binary_q, bin_data,
                   pc, req, loc, getters, ready, ret, obs>>

\* load_binary_file(filename, binary) from the answer of the POST to its
\* return.  upload records the call for the observer: n is flipped by every
\* call, had says whether the cache held an entry when the answer came.
load_binary_file(programId, outcome) ==
    /\ UNCHANGED others
    /\ IF outcome.binary /\ ~outcome.raised /\ outcome.status = 200
       THEN /\ _clear_cache
            /\ upload' = [n |-> 1 - upload.n, id |-> programId, had |-> cache # NoCache,
                          outcome |-> outcome, ret |-> Val(programId)]
       ELSE /\ UNCHANGED <<cache, timers, last>>
            /\ upload' = [n |-> 1 - upload.n, id |-> programId, had |-> cache # NoCache,
                          outcome |-> outcome, ret |-> None]
    /\ UNCHANGED <<ws, q_data, q_binary, json_q, binary_q, bin_data,
                   pc, req, loc, getters, ready, ret, obs>>

\* ------------------------------------------------------------------- time
\* the loop sleeps for one unit of time: no task is ready and no timer is
\* due.  An entry older than cache_timeout is counted as cache_timeout + 1.
Tick ==
    /\ UNCHANGED others
    /\ ready = <<>>
    /\ \A c \in Callers : InFlight(c) => loc[c].left > 0
    /\ \A tm \in timers : tm.left > 0
    /\ \/ \E c \in Callers : InFlight(c)
       \/ timers # {}
    /\ loc' = [c \in Callers |->
                  IF InFlight(c) THEN [loc[c] EXCEPT !.left = @ - 1] ELSE loc[c]]
    /\ timers' = {[tm EXCEPT !.left = @ - 1] : tm \in timers}
    /\ last' = [k \in MsgKeys |->
                   IF last[k].age < 0 \/ last[k].age > cache_timeout THEN last[k]
                   ELSE [last[k] EXCEPT !.age = @ + 1]]
    /\ UNCHANGED <<ws, q_data, q_binary, json_q, binary_q, bin_data, cache,
                   pc, req, getters, ready, ret, obs, upload>>

\* ------------------------------------------------------------ _process_q
\* method_dict: the public callables of the session, by name (some of them)
method_dict == {"getVars", "setBrightness", "runSequencer",
                "start", "stop", "subscribe", "start_ws"}
\* invalid_commands
invalid_commands == {"start", "stop", "subscribe", "start_ws"}

\* a message of the broker: the last segment of its topic and its payload
Msg(topic, payload) == [topic |-> topic, payload |-> payload]
NoMsg == Msg("", "")
\* the messages the broker delivers
Inbound == {Msg("getVars", ""), Msg("all", "setBrightness"), Msg("runSequencer", "True"),
            Msg("start", ""), Msg("all", "bogus"), Msg("_stop", ""),
            Msg("start", "getVars"), Msg("all", "stop")}

\* _get_command(msg): the command named by the topic, else by the payload,
\* else none ("")
_get_command_unchecked(msg) == IF msg.topic # "all" THEN msg.topic ELSE msg.payload
_get_command(msg) ==
    IF msg.topic \in method_dict THEN msg.topic
    ELSE IF msg.payload \in method_dict THEN msg.payload
    ELSE ""

\* how `await self.method_dict[command](*args)` can end: getVars returns
\* the variables or None, setBrightness returns nothing, runSequencer raises
Returns(cmd) ==
    IF cmd = "getVars" THEN {Val(1), None}
    ELSE IF cmd = "runSequencer" THEN {[t |-> "raised", e |-> "AttributeError"]}
    ELSE {None}

\* str(message)
Str(message) == [t |-> "str", of |-> message]

\* _publish(topic, message): what it hands to the broker client
\* (self._publish_enabled is True at all times)
_publish(topic, message) ==
    IF mqttc /\ message # None
    THEN <<[topic |-> topic, message |-> Str(message)]>>
    ELSE <<>>

\* _on_message, on the thread of the broker client: self.q.put(msg) is
\* handed to the loop
_on_message(msg) ==
    /\ mqttc
    /\ Len(q) < MaxInbox
    /\ q' = Append(q, msg)
    /\ UNCHANGED <<devicevars, mqttc, command, published, sessionvars, received, lookup, flashvars, topicvars, addressvars, enumvars, backupvars, setupvars>>

\* a loop that takes the newest message of the queue
_process_q_newest(msg) ==
    /\ command.at = "get"
    /\ q # <<>>
    /\ msg = q[Len(q)]
    /\ q' = SubSeq(q, 1, Len(q) - 1)
    /\ LET cmd == _get_command(msg) IN
       IF cmd = "" \/ cmd \in invalid_commands
       THEN /\ command' = [at |-> "get", msg |-> msg, cmd |-> cmd, failed |-> TRUE]
            /\ published' = _publish(cmd, None)
       ELSE /\ command' = [at |-> "execute", msg |-> msg, cmd |-> cmd,
                            failed |-> command.failed]
            /\ published' = <<>>
    /\ UNCHANGED <<devicevars, mqttc, sessionvars, received, lookup, flashvars, topicvars, addressvars, enumvars, backupvars, setupvars>>

\* _process_q from `msg = await self.q.get()` to its next await: the await
\* of the method, or, with no command or one of invalid_commands, the next get
\* (_execute_command returns None at once and _publish is called with it)
_process_q(msg) ==
    /\ command.at = "get"
    /\ q # <<>>
    /\ msg = Head(q)
    /\ q' = Tail(q)
    /\ LET cmd == _get_command(msg) IN
       IF cmd = "" \/ cmd \in invalid_commands
       THEN /\ command' = [at |-> "get", msg |-> msg, cmd |-> cmd, failed |-> TRUE]
            /\ published' = _publish(cmd, None)
       ELSE /\ command' = [at |-> "execute", msg |-> msg, cmd |-> cmd,
                            failed |-> command.failed]
            /\ published' = <<>>
    /\ UNCHANGED <<devicevars, mqttc, sessionvars, received, lookup, flashvars, topicvars, addressvars, enumvars, backupvars, setupvars>>

\* a loop that an exception of the method ends
_execute_command_breaks(out) ==
    /\ command.at = "execute"
    /\ out \in Returns(command.cmd)
    /\ LET value == IF out.t = "raised" THEN None ELSE out IN
       published' = published \o _publish(command.cmd, value)
    /\ command' = [command EXCEPT !.at = IF out.t = "raised" THEN "ended" ELSE "get",
                                  !.failed = @ \/ out.t = "raised"]
    /\ UNCHANGED <<devicevars, q, mqttc, sessionvars, received, lookup, flashvars, topicvars, addressvars, enumvars, backupvars, setupvars>>

\* _execute_command from the end of the method to its return, and _process_q
\* on to the next get: an exception is logged and leaves value None
_execute_command(out) ==
    /\ command.at = "execute"
    /\ out \in Returns(command.cmd)
    /\ LET value == IF out.t = "raised" THEN None ELSE out IN
       published' = published \o _publish(command.cmd, value)
    /\ command' = [command EXCEPT !.at = "get", !.failed = @ \/ out.t = "raised"]
    /\ UNCHANGED <<devicevars, q, mqttc, sessionvars, received, lookup, flashvars, topicvars, addressvars, enumvars, backupvars, setupvars>>

\* -------------------------------------------------------------- the session
\* an exception that leaves the operation
Raised(e) == [t |-> "raised", e |-> e]

\* start(): the tasks it makes besides the reader of the websocket
SessionTasks == {"_process_q", "_setup_client", "_pub_status", "_poll_status"}
\* the task each caller of _ws_send runs in
TaskOf == [poll |-> "_poll_status", cmd |-> "_process_q"]
\* the _async_websocket tasks: a task is "connecting" (in ws_connect),
\* "connected" (in its async for), in "backoff" (in asyncio.sleep(5)) or "none"
WsIds == 1 .. MaxWs
\* self.tasks = {}
NoTasks == [names |-> {}, ws |-> 0]
\* what the requests use and the lifecycle of the session leaves alone
requestvars == <<q_data, q_binary, json_q, binary_q, bin_data, cache, timers,
                 pc, req, loc, getters, ready, ret, obs, last, upload>>

\* connect() past its test of getWSConnected: self.auto_reconnect = True;
\* self.tasks['ws'] = self.loop.create_task(self._async_websocket())
create_ws_task(names, i) ==
    /\ auto_reconnect' = TRUE
    /\ wstask' = [wstask EXCEPT ![i] = "connecting"]
    /\ tasks' = [names |-> names, ws |-> i]

\* connect(), called by the application, which awaits each of its calls of
\* start, connect, disconnect and _stop before it makes the next
connect ==
    /\ api = "idle"
    /\ ~ws
    /\ \E i \in {j \in WsIds : wstask[j] = "none"} : create_ws_task(tasks.names, i)
    /\ session' = [session EXCEPT !.stopped = FALSE, !.lost = FALSE, !.disconnected = FALSE]
    /\ UNCHANGED <<ws, _exit, running, sock, api, requestvars, brokervars, received, lookup, flashvars, topicvars, addressvars, enumvars, backupvars, setupvars>>

\* start(), its first test: self.ip is set
has_ip_always == TRUE
has_ip == ip

\* a test of self.tasks that never finds a task
is_running_never == FALSE
\* start(), its second test: `if self.tasks: return`
is_running == tasks # NoTasks

\* start(): returns at once when there is no address or when self.tasks is
\* not empty; else makes the tasks of the session and calls connect()
start ==
    /\ api = "idle"
    /\ starts' = TRUE
    /\ IF ~has_ip \/ is_running
       THEN /\ session' = [session EXCEPT !.calls = 1 - @, !.again = tasks # NoTasks]
            /\ UNCHANGED <<_exit, running, tasks, auto_reconnect, wstask, setup, opened>>
       ELSE /\ _exit' = FALSE
            /\ running' = running \cup SessionTasks
            /\ setup' = "waitws"
            /\ opened' = ws
            /\ IF ws
               THEN /\ tasks' = [names |-> SessionTasks, ws |-> 0]
                    /\ UNCHANGED <<auto_reconnect, wstask>>
               ELSE \E i \in {j \in WsIds : wstask[j] = "none"} :
                        create_ws_task(SessionTasks, i)
            /\ session' = [session EXCEPT !.stopped = FALSE, !.lost = FALSE,
                                          !.disconnected = FALSE,
                                          !.calls = 1 - @, !.again = tasks # NoTasks]
    /\ UNCHANGED <<ws, sock, api, requestvars, brokervars, received, lookup, flashvars,
                   topicvars, ip, enumvars, backupvars, self_name, subscribed>>

\* _async_websocket with no self.ws_url: the task logs an error and ends
ws_no_url(i) ==
    /\ wstask[i] = "connecting"
    /\ ~ip
    /\ wstask' = [wstask EXCEPT ![i] = "none"]
    /\ UNCHANGED <<ws, sock, session, auto_reconnect, _exit, tasks, running, api,
                   requestvars, brokervars, received, lookup, flashvars, topicvars,
                   addressvars, enumvars, backupvars, setupvars>>

\* _async_websocket: `async with session.ws_connect(...) as self.ws` succeeds
ws_connected(i) ==
    /\ wstask[i] = "connecting"
    /\ ip
    /\ wstask' = [wstask EXCEPT ![i] = "connected"]
    /\ sock' = i
    /\ ws' = TRUE
    /\ session' = [session EXCEPT !.fails = 0]
    /\ opened' = TRUE
    /\ UNCHANGED <<auto_reconnect, _exit, tasks, running, api, requestvars, brokervars, received, lookup, flashvars, topicvars, addressvars, enumvars, backupvars, self_name, setup, subscribed>>

\* the reader that finds no reason to go on stops after the first failure
reconnects_once == auto_reconnect /\ ~_exit /\ session.fails = 0

\* _async_websocket: `if self.auto_reconnect and not self._exit`
reconnects == auto_reconnect /\ ~_exit

\* _async_websocket: ws_connect fails, or the async for ends with CLOSED,
\* ERROR, the end of the stream or an exception: self.ws = None, and then the
\* task sleeps before it reconnects, or ends
ws_lost(i) ==
    /\ wstask[i] \in {"connecting", "connected"}
    /\ ip
    /\ sock' = 0
    /\ ws' = FALSE
    /\ wstask' = [wstask EXCEPT ![i] = IF reconnects THEN "backoff" ELSE "none"]
    /\ session' = [session EXCEPT
                      !.fails = IF @ < MaxFails THEN @ + 1 ELSE @,
                      !.lost = auto_reconnect /\ ~_exit]
    /\ UNCHANGED <<auto_reconnect, _exit, tasks, running, api, requestvars, brokervars, received, lookup, flashvars, topicvars, addressvars, enumvars, backupvars, setupvars>>

\* _async_websocket: asyncio.sleep(5) is over; await self.connect(), and the
\* task ends (the task connect() makes takes its place)
ws_reconnect(i) ==
    /\ wstask[i] = "backoff"
    /\ IF ws
       THEN /\ wstask' = [wstask EXCEPT ![i] = "none"]
            /\ UNCHANGED <<auto_reconnect, tasks>>
       ELSE create_ws_task(tasks.names, i)
    /\ session' = [session EXCEPT !.lost = FALSE]
    /\ UNCHANGED <<ws, _exit, running, sock, api, requestvars, brokervars, received, lookup, flashvars, topicvars, addressvars, enumvars, backupvars, setupvars>>

\* disconnect(), called by the application, up to its await of
\* wait_for(self.ws.close(), 5); not connected, it runs to its end
disconnect ==
    /\ api = "idle"
    /\ auto_reconnect' = FALSE
    /\ IF ws
       THEN /\ api' = "disconnect"
            /\ UNCHANGED <<ws, sock, session>>
       ELSE /\ sock' = 0
            /\ session' = [session EXCEPT !.disconnected = TRUE]
            /\ UNCHANGED <<ws, api>>
    /\ UNCHANGED <<_exit, tasks, running, wstask, requestvars, brokervars, received, lookup, flashvars, topicvars, addressvars, enumvars, backupvars, setupvars>>

\* disconnect() after the close or its 5 s: self.ws = None
disconnect_return ==
    /\ api = "disconnect"
    /\ api' = "idle"
    /\ sock' = 0
    /\ ws' = FALSE
    /\ session' = [session EXCEPT !.disconnected = TRUE]
    /\ UNCHANGED <<auto_reconnect, _exit, tasks, running, wstask,
                   requestvars, brokervars, received, lookup, flashvars, topicvars, addressvars, enumvars, backupvars, setupvars>>

\* a task that is cancelled while it waits in _ws_send: _ws_send catches
\* asyncio.TimeoutError only, so the CancelledError leaves it as it came
Cancelled(c) == InFlight(c) /\ TaskOf[c] \in tasks.names \cap running

\* a cancelling that ends the tasks and leaves their requests waiting
cancel_tasks_only ==
    /\ wstask' = [i \in WsIds |-> IF i = tasks.ws THEN "none" ELSE wstask[i]]
    /\ running' = running \ tasks.names
    /\ setup' = "none"
    /\ UNCHANGED requestvars

\* _stop: [task.cancel() for task in self.tasks.values()] and the end of each
\* of these tasks (the reader runs `except asyncio.CancelledError` or is
\* cancelled in its sleep; the loops break), which the gather awaits
cancel_tasks ==
    /\ wstask' = [i \in WsIds |-> IF i = tasks.ws THEN "none" ELSE wstask[i]]
    /\ running' = running \ tasks.names
    /\ setup' = "none"
    /\ pc' = [c \in Callers |-> IF Cancelled(c) THEN "returned" ELSE pc[c]]
    /\ ret' = [c \in Callers |->
                 IF Cancelled(c) THEN Raised("CancelledError") ELSE ret[c]]
    /\ loc' = [c \in Callers |-> IF Cancelled(c) THEN NoLocals ELSE loc[c]]
    /\ obs' = [c \in Callers |->
                 IF Cancelled(c) THEN [obs[c] EXCEPT !.how = "cancelled"] ELSE obs[c]]
    /\ getters' = SelectSeq(getters, LAMBDA c : ~Cancelled(c))
    /\ ready' = SelectSeq(ready, LAMBDA c : ~Cancelled(c))
    /\ UNCHANGED <<q_data, q_binary, json_q, binary_q, bin_data, cache, timers,
                   req, last, upload>>

\* _stop up to its first await: self._exit = True, and disconnect() up to
\* the close of an open websocket; not connected, it goes on to the gather
_stop ==
    /\ api = "idle"
    /\ _exit' = TRUE
    /\ auto_reconnect' = FALSE
    /\ IF ws
       THEN /\ api' = "closing"
            /\ UNCHANGED <<ws, sock, wstask, running, session, requestvars, setup>>
       ELSE /\ api' = "gather"
            /\ sock' = 0
            /\ cancel_tasks
            /\ session' = [session EXCEPT !.lost = FALSE]
            /\ UNCHANGED ws
    /\ UNCHANGED <<tasks, brokervars, received, lookup, flashvars, topicvars, addressvars, enumvars, backupvars, self_name, subscribed, opened>>

\* _stop after the close or its 5 s: self.ws = None, the tasks are cancelled
_stop_closed ==
    /\ api = "closing"
    /\ api' = "gather"
    /\ sock' = 0
    /\ ws' = FALSE
    /\ cancel_tasks
    /\ session' = [session EXCEPT !.lost = FALSE]
    /\ UNCHANGED <<auto_reconnect, _exit, tasks, brokervars, received, lookup, flashvars, topicvars, addressvars, enumvars, backupvars, self_name, subscribed, opened>>

\* _stop after the gather: self.tasks = {}; self.ws = None; the broker
\* client is disconnected and self.mqttc = None
_stop_return ==
    /\ api = "gather"
    /\ api' = "idle"
    /\ tasks' = NoTasks
    /\ sock' = 0
    /\ ws' = FALSE
    /\ mqttc' = FALSE
    /\ session' = [session EXCEPT !.stopped = TRUE]
    /\ UNCHANGED <<auto_reconnect, _exit, running, wstask, requestvars,
                   q, command, published, received, lookup, flashvars, topicvars, addressvars, enumvars, backupvars, setupvars>>

\* ------------------------------------------------------- the specifications
\* __init__'s values
Fresh ==
    /\ q_data = FALSE
    /\ q_binary = FALSE
    /\ json_q = <<>>
    /\ binary_q = <<>>
    /\ bin_data = None
    /\ cache = NoCache
    /\ timers = {}
    /\ pc = [c \in Callers |-> "idle"]
    /\ req = [c \in Callers |-> setBrightness]
    /\ loc = [c \in Callers |-> NoLocals]
    /\ getters = <<>>
    /\ ready = <<>>
    /\ ret = [c \in Callers |-> None]
    /\ obs = [c \in Callers |-> NoObs]
    /\ last = NoLast
    /\ upload = [n |-> 0, id |-> "", had |-> FALSE,
                 outcome |-> [binary |-> FALSE, raised |-> FALSE, status |-> 0],
                 ret |-> None]
    /\ q = <<>>
    /\ command = [at |-> "get", msg |-> NoMsg, cmd |-> "", failed |-> FALSE]
    /\ published = <<>>
    /\ received = <<>>
    /\ flash_save_enabled = FALSE
    /\ transmitted = [cmd |-> "", arg |-> Number(0, 1), value |-> Number(0, 1),
                      saveFlash |-> FALSE, save |-> FALSE]
    /\ lookup = [n |-> 0, pattern |-> "", patterns |-> <<>>, result |-> <<None, None>>]
    /\ auto_reconnect = TRUE
    /\ _exit = FALSE
    /\ api = "idle"
    /\ session = [stopped |-> FALSE, fails |-> 0, lost |-> FALSE, disconnected |-> FALSE,
                  calls |-> 0, again |-> FALSE]
    /\ history = Empty
    /\ decoding = <<>>
    /\ now = 0
    /\ devices = Empty
    /\ autoSync = FALSE
    /\ DEVICE_TIMEOUT = 6
    /\ new_data = FALSE
    /\ sendto = [n |-> 0, data |-> <<>>, addr |-> 0]
    /\ sweep = [left |-> 0, removed |-> {}]
    /\ heard = FALSE
    /\ archive = <<>>
    /\ saved = {}
    /\ loaded = [n |-> 0, patterns |-> <<>>, pairs |-> {}]

\* start() has returned, the websocket is open and the broker client is made
Started ==
    /\ mqttc = TRUE
    /\ ip = TRUE
    /\ starts = TRUE
    /\ ws = TRUE
    /\ tasks = [names |-> SessionTasks, ws |-> 1]
    /\ running = SessionTasks
    /\ wstask = [i \in WsIds |-> IF i = 1 THEN "connected" ELSE "none"]
    /\ sock = 1
    /\ self_name = TRUE
    /\ setup = "none"
    /\ subscribed = "name"
    /\ opened = TRUE

\* the session once start() has run, the websocket has connected and
\* _setup_client has made the broker client
Init == Fresh /\ Started /\ json_out = TRUE

\* the text frames the device sends: the answer to a request of two keys
\* comes as one frame or as two
ConfigFrames ==
    {[k \in {"name"} |-> Val(1)], [k \in {"activeProgram"} |-> Val(1)],
     [k \in {"name", "activeProgram"} |-> Val(1)], [k \in {"name", "activeProgram"} |-> Val(2)]}
SequencerFrames ==
    {[k \in {"sequencerMode"} |-> Val(1)], [k \in {"runSequencer"} |-> Val(1)],
     [k \in {"sequencerMode", "runSequencer"} |-> Val(1)]}
\* the reply to getVars carries the exported variables as an object
VarsFrames == {[k \in {"vars"} |-> Dict([v \in {"a"} |-> Val(1)])]}

\* the poll loop and the command loop call _ws_send side by side
Next ==
    \/ \E c \in Callers, r \in {getVars, startSequencer, getBoth} : _ws_send(c, r)
    \/ \E c \in Callers : _expect(c)
    \/ \E c \in Callers : wait_for_timeout(c)
    \/ \E frame \in SequencerFrames \cup VarsFrames : ws_text(frame)
    \/ ws_closed
    \/ Tick

Spec == Init /\ [][Next]_vars

\* one task alone calls _ws_send, one call after the other
NextSeq ==
    \/ \E r \in {getConfig, getVars} : _ws_send("cmd", r)
    \/ _expect("cmd")
    \/ wait_for_timeout("cmd")
    \/ \E frame \in ConfigFrames \cup VarsFrames : ws_text(frame)
    \/ \E tm \in timers : call_later_pop(tm)
    \/ \E o \in Outcomes, p \in PatternIds : load_binary_file(p, o)
    \/ ws_closed
    \/ Tick

SpecSeq == Init /\ [][NextSeq]_vars

\* the binary chunks the device sends: a type byte, a flag byte and a
\* fragment.  A preview image comes as "A", "B", "C" in chunks flagged START,
\* CONT and END, a program list as "A\t", "B\n" in chunks flagged START and END.
Fragment(type, flag) ==
    IF type = program_list
    THEN (IF flag = START THEN <<65, TAB>> ELSE <<66, NL>>)
    ELSE (IF flag = START THEN <<65>> ELSE IF flag = CONT THEN <<66>> ELSE <<67>>)
Flags(type) == IF type = program_list THEN {START, END} ELSE {START, CONT, END}
Chunks ==
    UNION {{<<type, flag>> \o Fragment(type, flag) : flag \in Flags(type)} :
           type \in {thumbnail_jpg, program_list}}

\* one task alone asks for binary data: the program list, a preview image
NextBin ==
    \/ \E r \in {listPrograms, getPreviewImg} : _ws_send("cmd", r)
    \/ _expect("cmd")
    \/ wait_for_timeout("cmd")
    \/ \E chunk \in Chunks : ws_binary(chunk)
    \/ \E tm \in timers : call_later_pop(tm)
    \/ Tick

SpecBin == Init /\ [][NextBin]_vars

\* the poll loop and the command loop both ask for the configuration, which
\* is cached, while patterns are uploaded
NextCache ==
    \/ \E c \in Callers : _ws_send(c, getConfig)
    \/ \E c \in Callers : _expect(c)
    \/ \E c \in Callers : wait_for_timeout(c)
    \/ ws_text([k \in {"name", "activeProgram"} |-> Val(1)])
    \/ \E tm \in timers : call_later_pop(tm)
    \/ \E o \in Outcomes : load_binary_file("p1", o)
    \/ Tick

SpecCache == Init /\ [][NextCache]_vars

\* ------------------------------------------------------------------ claims
\* a finished call that awaited keys
Awaited(c) == Range(req[c].expect)

\* C1: a transmitted request that awaits a response key, and to which no
\* frame carrying an awaited key comes, returns None ((None, None) when a
\* binary payload is awaited too) when its deadline comes: not before, and no
\* wait goes on past its deadline.
C1_TimeoutAtDeadline ==
    \A c \in Callers :
        /\ InFlight(c) => loc[c].left \in 0..timeout
        /\ (pc[c] = "done" /\ obs[c].sent /\ Awaited(c) # {}
              /\ obs[c].arrived = {} /\ obs[c].got = {})
           => /\ obs[c].how = "timeout"
              /\ obs[c].rem = 0
              /\ ret[c] = IF req[c].binary # 0 THEN Pair(None, None) ELSE None

\* a request that awaited a key and a binary payload has timed out with
\* nothing received
C1_Witness ==
    \E c \in Callers :
        /\ pc[c] = "done" /\ obs[c].sent /\ req[c] = getBoth
        /\ obs[c].arrived = {} /\ obs[c].got = {}
        /\ obs[c].how = "timeout" /\ ret[c] = Pair(None, None)

\* C2: a call that awaits several keys returns data only when a frame
\* holding each of its keys has been handed to it, and the data holds every
\* key; a call whose deadline comes returns None, never the keys it has.
C2_AllKeysOrNone ==
    \A c \in Callers :
        (pc[c] = "done" /\ Len(req[c].expect) > 1 /\ req[c].binary = 0) =>
            /\ obs[c].how = "timeout" => ret[c] = None
            /\ obs[c].how = "data" => ret[c] # None /\ Awaited(c) \subseteq obs[c].got
            /\ ret[c] # None =>
                 /\ ret[c].t = "obj"
                 /\ Awaited(c) \subseteq DOMAIN ret[c].o

\* a call for two keys has timed out with one of them received
C2_Witness ==
    \E c \in Callers :
        /\ pc[c] = "done" /\ req[c] = startSequencer
        /\ obs[c].how = "timeout" /\ ret[c] = None
        /\ obs[c].got = {"sequencerMode"}

\* C3 (the claim as stated): a call that awaits several keys succeeds when
\* every key has arrived in some frame before its deadline, in whatever order,
\* and times out only if a key has not arrived.
C3_AnyOrderSucceeds ==
    \A c \in Callers :
        (pc[c] = "done" /\ obs[c].sent /\ Len(req[c].expect) > 1) =>
            /\ Awaited(c) \subseteq obs[c].arrived => obs[c].how = "data"
            /\ obs[c].how = "timeout" => ~(Awaited(c) \subseteq obs[c].arrived)

\* C4 (the claim as stated): with two requests that await different keys in
\* flight, a frame that carries the key a request awaits is delivered to that
\* request, also when the other request takes frames, completes or times out.
C4_FrameReachesItsRequest ==
    \A c \in Callers :
        (pc[c] = "done" /\ obs[c].sent /\ ~obs[c].shared
            /\ Len(req[c].expect) = 1 /\ req[c].binary = 0) =>
            (Awaited(c) \subseteq obs[c].arrived => obs[c].how = "data")

\* C5 (the claim as stated): no two requests in flight await the same key.
C5_OneRequestPerKey ==
    \A c, d \in Callers :
        (c # d /\ InFlight(c) /\ InFlight(d)) => Awaited(c) \cap Awaited(d) = {}

\* a step in which caller c calls _ws_send
Called(c) ==
    /\ pc[c] \in {"idle", "done"}
    /\ <<pc[c], req[c], ret[c], obs[c]>>' # <<pc[c], req[c], ret[c], obs[c]>>

C7_HitNotOlderThanTimeout ==
    /\ \A c \in Callers : obs[c].how = "cache" => obs[c].age \in 0..cache_timeout
    /\ \A k \in MsgKeys :
          cache[k] # None => /\ last[k].val = cache[k]
                             /\ last[k].age \in 0..cache_timeout

\* both tasks asked for the configuration at the same time, both answers were
\* stored, and a later call was answered from the cache at the very end of
\* the entry's life
C7_Witness ==
    \E c \in Callers :
        /\ obs[c].how = "cache" /\ obs[c].age = cache_timeout
        /\ \E d \in Callers \ {c} : obs[d].how = "data" /\ obs[d].shared

\* C8: an upload answered with status 200 leaves the cache empty and returns
\* the pattern id; an upload answered with another status, or one that
\* raises, leaves the cache as it was and returns None.
C8_UploadClearsOnSuccessOnly ==
    [][upload'.n # upload.n =>
          IF upload'.outcome.binary /\ ~upload'.outcome.raised
                /\ upload'.outcome.status = 200
          THEN cache' = NoCache /\ upload'.ret = Val(upload'.id)
          ELSE cache' = cache /\ upload'.ret = None]_vars

\* an upload answered with 200 found the configuration cached and emptied
\* the cache
C8_Witness ==
    /\ upload.outcome.status = 200 /\ upload.had
    /\ cache = NoCache /\ upload.ret = Val(upload.id)

\* the chunks are all of one type, the first flagged START, the last END,
\* those in between CONT
WellFormed(chunks, type) ==
    /\ Len(chunks) >= 2
    /\ \A i \in DOMAIN chunks :
          /\ chunks[i][1] = type
          /\ chunks[i][2] = (IF i = 1 THEN START ELSE IF i = Len(chunks) THEN END ELSE CONT)

\* the fragments of the chunks, one after the other
RECURSIVE Concat(_)
Concat(chunks) ==
    IF chunks = <<>> THEN <<>> ELSE Payload(Head(chunks)) \o Concat(Tail(chunks))

\* C9 (the claim as stated): when the chunks handed to a binary request,
\* issued with an empty accumulator, are START, CONT.., END of its type, the
\* request has returned the concatenation of their fragments (for a program
\* list, the dict parsed from it).
C9_ConcatenationOfFragments ==
    \A c \in Callers :
        (obs[c].sent /\ req[c].binary # 0 /\ req[c].expect = <<>> /\ obs[c].acc = None
            /\ obs[c].how # "timeout" /\ WellFormed(obs[c].fed, req[c].binary))
        => /\ pc[c] = "done"
           /\ ret[c] = IF req[c].binary = program_list
                       THEN Dict(ParseList(Concat(obs[c].fed)))
                       ELSE Bytes(Concat(obs[c].fed))

\* the chunks handed to caller c that are of the type it asked for
Typed(c) == SelectSeq(obs[c].fed, LAMBDA chunk : chunk[1] = req[c].binary)

\* C10: at every moment of a binary request the accumulator is what the
\* chunks of the request's type alone make it, the request goes on waiting
\* exactly when they alone would not end it, and the value it returns is the
\* value they alone give.
C10_MismatchedChunkDiscarded ==
    \A c \in Callers :
        (obs[c].sent /\ req[c].binary # 0 /\ req[c].expect = <<>>) =>
            LET alone == DrainBinary(obs[c].acc, req[c].binary, Typed(c), <<>>) IN
            /\ InFlight(c) => alone.more /\ bin_data = alone.acc
            /\ (pc[c] = "done" /\ obs[c].how = "data")
                  => ~alone.more /\ alone.q = <<>> /\ ret[c] = alone.bin

\* a request has returned data after a chunk of another type, flagged START,
\* came between two chunks of its own type
C10_Witness ==
    \E c \in Callers :
        /\ pc[c] = "done" /\ obs[c].how = "data" /\ req[c].binary # 0
        /\ Len(obs[c].fed) >= 3
        /\ obs[c].fed[1][1] = req[c].binary
        /\ obs[c].fed[Len(obs[c].fed)][1] = req[c].binary
        /\ \E i \in 2..(Len(obs[c].fed) - 1) :
              obs[c].fed[i][1] # req[c].binary /\ HasFlag(obs[c].fed[i], START)

\* ------------------------------------------------- a transfer in one chunk
\* the chunks of a device that sends a whole preview image ("D") or a whole
\* program list ("A\tB\n") in one chunk flagged START and END, after it may
\* have begun a preview image ("A") that it never ends
WholeChunks ==
    {<<thumbnail_jpg, START, 65>>,
     <<thumbnail_jpg, START + END, 68>>,
     <<program_list, START + END, 65, TAB, 66, NL>>}

\* one task alone asks for binary data that comes in one chunk
NextWhole ==
    \/ \E r \in {listPrograms, getPreviewImg} : _ws_send("cmd", r)
    \/ _expect("cmd")
    \/ wait_for_timeout("cmd")
    \/ \E chunk \in WholeChunks : ws_binary(chunk)
    \/ \E tm \in timers : call_later_pop(tm)
    \/ Tick

SpecWhole == Init /\ [][NextWhole]_vars

\* the value a finalized transfer of the bytes b has for a request of the type
Finalized(type, b) == IF type = program_list THEN Dict(ParseList(b)) ELSE Bytes(b)

\* C11 (the claim as stated): when the one chunk handed to a binary request
\* is of the awaited type and flagged START and END, the request has returned
\* the payload of that chunk (for a program list, the dict parsed from it).
C11_WholeChunkFinalizes ==
    \A c \in Callers :
        (obs[c].sent /\ req[c].binary # 0 /\ req[c].expect = <<>> /\ Len(obs[c].fed) = 1) =>
            LET chunk == obs[c].fed[1] IN
            (chunk[1] = req[c].binary /\ HasFlag(chunk, START) /\ HasFlag(chunk, END))
               => /\ pc[c] = "done"
                  /\ obs[c].how = "data"
                  /\ ret[c] = Finalized(req[c].binary, Payload(chunk))

\* ------------------------------------------- the operations of the client
\* runSequencer: _ws_send({"runSequencer": run}, expect="runSequencer")
runSequencerRequest == Request("runSequencer", <<"runSequencer">>, FALSE, 0, FALSE)

\* runSequencer(run), and pauseSequencer and playSequencer which call it, up
\* to the await of _ws_send
runSequencer(c) ==
    /\ pc[c] # "done"
    /\ _ws_send(c, runSequencerRequest)

\* runSequencer from the return of _ws_send:
\* return bool(result.get("runSequencer")); only a dict has .get
runSequencer_return(c) ==
    /\ UNCHANGED others
    /\ pc[c] = "done"
    /\ req[c] = runSequencerRequest
    /\ pc' = [pc EXCEPT ![c] = "returned"]
    /\ ret' = [ret EXCEPT ![c] =
                 IF ret[c].t # "obj" THEN Raised("AttributeError")
                 ELSE IF "runSequencer" \in DOMAIN ret[c].o /\ ret[c].o["runSequencer"] # Val(0)
                      THEN Val(1) ELSE Val(0)]
    /\ UNCHANGED <<ws, q_data, q_binary, json_q, binary_q, bin_data, cache, timers,
                   req, loc, getters, ready, obs, last, upload>>

\* setDataspeed(speed) and setpixelCount(num) up to the await in
\* getHardwareConfig: the setting is sent if the websocket is open (nothing
\* is awaited), the cache is cleared, and getConfig, which the cache cannot
\* answer now, is sent and awaited, or dropped if the websocket is not open
setDataspeed(c) ==
    /\ UNCHANGED others
    /\ pc[c] \in {"idle", "returned"}
    /\ _clear_cache
    /\ req' = [req EXCEPT ![c] = getConfig]
    /\ ret' = [ret EXCEPT ![c] = None]
    /\ IF ws
       THEN /\ q_data' = TRUE
            /\ pc' = [pc EXCEPT ![c] = "json"]
            /\ loc' = [loc EXCEPT ![c] = [ki |-> 1, json_data |-> Empty, left |-> timeout]]
            /\ ready' = Append(ready, c)
            /\ obs' = [d \in Callers |->
                         IF d = c
                         THEN [NoObs EXCEPT !.sent = TRUE, !.how = "wait", !.acc = bin_data,
                                            !.old = Len(json_q),
                                            !.shared = Rivals(c, getConfig) # {}]
                         ELSE IF d \in Rivals(c, getConfig)
                         THEN [obs[d] EXCEPT !.shared = TRUE]
                         ELSE obs[d]]
       ELSE /\ pc' = [pc EXCEPT ![c] = "done"]
            /\ loc' = [loc EXCEPT ![c] = NoLocals]
            /\ obs' = [obs EXCEPT ![c] = [NoObs EXCEPT !.how = "closed"]]
            /\ UNCHANGED <<q_data, ready>>
    /\ UNCHANGED <<ws, q_binary, json_q, binary_q, bin_data, getters, upload>>

\* setDataspeed from the return of getHardwareConfig:
\* return hw.get("dataSpeed"); only a dict has .get
setDataspeed_return(c) ==
    /\ UNCHANGED others
    /\ pc[c] = "done"
    /\ req[c] = getConfig
    /\ pc' = [pc EXCEPT ![c] = "returned"]
    /\ ret' = [ret EXCEPT ![c] =
                 IF ret[c].t # "obj" THEN Raised("AttributeError")
                 ELSE IF "dataSpeed" \in DOMAIN ret[c].o THEN ret[c].o["dataSpeed"]
                 ELSE None]
    /\ UNCHANGED <<ws, q_data, q_binary, json_q, binary_q, bin_data, cache, timers,
                   req, loc, getters, ready, obs, last, upload>>

\* the frames that answer these operations
FacadeFrames ==
    {[k \in {"runSequencer"} |-> Val(1)],
     [k \in {"name", "activeProgram"} |-> Val(1)],
     [k \in {"name", "activeProgram", "dataSpeed"} |-> Val(2)]}

\* one task calls the operations of the client, one after the other
NextFacade ==
    \/ runSequencer("cmd")
    \/ runSequencer_return("cmd")
    \/ setDataspeed("cmd")
    \/ setDataspeed_return("cmd")
    \/ _expect("cmd")
    \/ wait_for_timeout("cmd")
    \/ \E frame \in FacadeFrames : ws_text(frame)
    \/ \E tm \in timers : call_later_pop(tm)
    \/ ws_closed
    \/ Tick

SpecFacade == Init /\ [][NextFacade]_vars

\* C12 (the claim as stated): an operation of the client whose request timed
\* out, or was issued with the websocket not open, has returned None or
\* False and has raised nothing.
C12_NoResultNotException ==
    \A c \in Callers :
        (pc[c] = "returned" /\ obs[c].how \in {"timeout", "closed"})
            => ret[c] \in {None, Val(0)}

\* ------------------------------------------------------ the command loop
\* the broker delivers messages and the command loop handles them
NextCommand ==
    \/ \E msg \in Inbound : _on_message(msg)
    \/ \E msg \in Inbound : _process_q(msg)
    \/ \E out \in UNION {Returns(cmd) : cmd \in method_dict} : _execute_command(out)

SpecCommand == Init /\ [][NextCommand]_vars

\* C13 (the claim as stated): when the command loop is back at its get after
\* a message, taken while the broker client exists, exactly one
\* acknowledgement has been published since the message was taken.
C13_OneAckPerCommand ==
    (command.at = "get" /\ command.msg # NoMsg /\ mqttc) => Len(published) = 1

\* ------------------------------------------------- the life of the session
\* the application starts, connects, disconnects and stops the session while
\* the transport opens and fails
NextSession ==
    \/ start
    \/ connect
    \/ disconnect
    \/ disconnect_return
    \/ _stop
    \/ _stop_closed
    \/ _stop_return
    \/ \E i \in WsIds : ws_connected(i)
    \/ \E i \in WsIds : ws_lost(i)
    \/ \E i \in WsIds : ws_reconnect(i)

SpecSession == Init /\ [][NextSession]_vars

\* the loop resumes a reader whose sleep is over
SpecReconnect == SpecSession /\ \A i \in WsIds : WF_vars(ws_reconnect(i))

\* a reader is opening a connection or holds one
Attempting == \E i \in WsIds : wstask[i] \in {"connecting", "connected"}

\* C14: when the transport closed, failed or did not open while
\* auto_reconnect was set and the session was not stopped, a new connection
\* attempt is made after the backoff, however many failures came before,
\* unless the session is stopped meanwhile.
C14_ReconnectsAfterBackoff ==
    session.lost ~> (Attempting \/ _exit \/ api = "gather")

\* a new attempt is in progress after MaxFails failures in a row
C14_Witness ==
    /\ session.fails = MaxFails
    /\ ~session.lost
    /\ ~_exit
    /\ \E i \in WsIds : wstask[i] = "connecting"
    /\ \A i \in WsIds : wstask[i] \in {"connecting", "none"}

\* C15 (the claim as stated): once _stop has returned, and until start() or
\* connect() is called, no task of the session runs, the session is not
\* connected and no reader is opening a connection or waiting to.
C15_StoppedSessionIsQuiet ==
    session.stopped =>
        /\ running = {}
        /\ \A i \in WsIds : wstask[i] = "none"
        /\ ~ws
        /\ sock = 0

\* --------------------------------------------- requests when the session stops
\* a task of the session calls _ws_send while it runs
call(c, r) ==
    /\ TaskOf[c] \in running
    /\ _ws_send(c, r)

\* the reader dispatches a frame; ws.close() ends its async for, so none is
\* dispatched once _stop has called disconnect()
ws_frame(frame) ==
    /\ api = "idle"
    /\ ws_text(frame)

\* the poll loop and the command loop have requests in flight when the
\* application stops the session
NextStop ==
    \/ \E c \in Callers : call(c, getVars)
    \/ \E c \in Callers : _expect(c)
    \/ \E c \in Callers : wait_for_timeout(c)
    \/ \E frame \in VarsFrames : ws_frame(frame)
    \/ Tick
    \/ _stop
    \/ _stop_closed
    \/ _stop_return

\* wait_for(self.ws.close(), 5) in disconnect() ends within its 5 s
SpecStop == Init /\ [][NextStop]_vars /\ WF_vars(_stop_closed)

RECURSIVE Pairs(_, _)
Pairs(state, prefix) ==
    UNION {LET key == IF prefix = "" THEN k ELSE prefix \o "_" \o k IN
           IF state[k].t = "dict" THEN Pairs(state[k].d, key) ELSE {<<key, state[k]>>}
           : k \in DOMAIN state}

\* the orders in which the items of a dict can come
Orders(pairs) ==
    {seq \in [1 .. Cardinality(pairs) -> pairs] : Range(seq) = pairs}

\* _has_changed(k, v), the test: str(v) is not what self.history has for k
_has_changed(k, v) == k \notin DOMAIN history \/ history[k] # Str(v)

\* _async_websocket, a TEXT message: the frame is handed to the request that
\* waits, and then published as 'update' or handed to _decode_topics
ws_text_json_out(frame) ==
    /\ ws
    /\ decoding = <<>>
    /\ Len(received) < MaxFrames
    /\ dispatch_text(frame)
    /\ received' = Append(received, frame)
    /\ IF json_out
       THEN /\ published' = published \o _publish("update", frame)
            /\ decoding' = <<>>
       ELSE /\ published' = published
            /\ decoding' \in Orders(Pairs(frame, ""))
    /\ UNCHANGED <<q, mqttc, command, sessionvars, lookup, flashvars, json_out, history,
                   addressvars, enumvars, backupvars, setupvars>>

\* _decode_topics at one pair: if self._has_changed(k, v) (which records
\* str(v)), self._publish(k, str(v)); the str of a str is that str
_decode_topics ==
    /\ decoding # <<>>
    /\ LET k == Head(decoding)[1]
           v == Head(decoding)[2] IN
       IF _has_changed(k, v)
       THEN /\ history' = Update(history, [x \in {k} |-> Str(v)])
            /\ published' = published \o _publish(k, v)
       ELSE UNCHANGED <<history, published>>
    /\ decoding' = Tail(decoding)
    /\ UNCHANGED <<devicevars, q, mqttc, command, sessionvars, received, lookup, flashvars,
                   json_out, addressvars, enumvars, backupvars, setupvars>>

\* _on_connect, on the thread of the broker client, whenever the client has
\* connected to the broker: it subscribes, and self.history = {}
_on_connect ==
    /\ mqttc
    /\ history' = Empty
    /\ subscribed' = IF self_name THEN "name" ELSE "None"
    /\ UNCHANGED <<devicevars, brokervars, sessionvars, received, lookup, flashvars,
                   json_out, decoding, addressvars, enumvars, backupvars,
                   self_name, setup, opened>>

\* the command loop asks for the configuration while the device sends frames
NextOrder ==
    \/ _ws_send("cmd", getConfig)
    \/ _expect("cmd")
    \/ wait_for_timeout("cmd")
    \/ \E frame \in ConfigFrames \cup VarsFrames : ws_text_json_out(frame)
    \/ Tick

SpecOrder == Init /\ [][NextOrder]_vars

\* s is t with some of its elements left out, the order kept
RECURSIVE InOrder(_, _)
InOrder(s, t) ==
    IF s = <<>> THEN TRUE
    ELSE IF t = <<>> THEN FALSE
    ELSE IF Head(s) = Head(t) THEN InOrder(Tail(s), Tail(t))
    ELSE InOrder(s, Tail(t))

\* the 'update' publications are those of the frames received, in their order
UpdatesInOrder ==
    published = [i \in 1 .. Len(received) |->
                    [topic |-> "update", message |-> Str(received[i])]]

\* a step adds a frame to self.json_q at its end only, and takes frames from
\* its front only
FirstInFirstOut ==
    \/ json_q' = json_q
    \/ /\ received' # received
       /\ json_q' = Append(json_q, received'[Len(received')])
    \/ \E n \in 1 .. Len(json_q) : json_q' = SubSeq(json_q, n + 1, Len(json_q))

\* C17: the 'update' publications come in the order the text frames were
\* received, and the frames that wait for a request are in the order they
\* were received and leave the queue from its front.
C17_FramesInArrivalOrder ==
    /\ [](UpdatesInOrder /\ InOrder(json_q, received))
    /\ [][FirstInFirstOut]_vars

\* two different frames wait for the request in the order they came, after
\* an earlier frame, and all three were published
C17_Witness ==
    /\ Len(received) = 3
    /\ Len(json_q) = 2
    /\ json_q[1] # json_q[2]
    /\ json_q = SubSeq(received, 2, 3)
    /\ Len(published) = 3

\* ------------------------------------------------------ the pattern lookup
\* a pattern list is the dict of _get_patterns, id -> name, as the sequence
\* of its items; names are not empty
PatternNames == {"Rainbow", "Fire", "p1"}
PatternLists ==
    {<<>>}
    \cup {<<<<i, nm>>>> : i \in PatternIds, nm \in PatternNames}
    \cup {l \in {<<<<i, nm>>, <<j, nm2>>>> :
                      i \in PatternIds, j \in PatternIds,
                      nm \in PatternNames, nm2 \in PatternNames} :
              l[1][1] # l[2][1]}
\* what a caller may pass for a pattern
References == PatternIds \cup PatternNames \cup {"nonexistent"}

\* [x for k, v in patterns.items() if ...]; result[0] if result else None
First(matches) == IF matches = <<>> THEN None ELSE Str(Head(matches))

\* _id_from_name(patterns, name)
_id_from_name(patterns, name) ==
    LET result == SelectSeq(patterns, LAMBDA item : item[2] = name) IN
    First([i \in DOMAIN result |-> result[i][1]])

\* _name_from_id(patterns, pid)
_name_from_id(patterns, pid) ==
    LET result == SelectSeq(patterns, LAMBDA item : item[1] = pid) IN
    First([i \in DOMAIN result |-> result[i][2]])

\* patterns.keys()
Keys(patterns) == {patterns[i][1] : i \in DOMAIN patterns}
\* the names of the list
Names(patterns) == {patterns[i][2] : i \in DOMAIN patterns}

\* the truth value of an id or a name: None and '' are false
Truthy(v) == v # None /\ v # Str("")

\* a lookup that tries the names before the ids
_get_pattern_id_and_name_by_name(pattern, patterns, listed) ==
    LET pats == IF patterns = <<>> THEN listed ELSE patterns IN
    IF pats = <<>> THEN <<None, None>>
    ELSE IF pattern \in Names(pats)
         THEN <<_id_from_name(pats, pattern), Str(pattern)>>
         ELSE LET name == _name_from_id(pats, pattern)
              IN  <<IF Truthy(name) THEN Str(pattern) ELSE None, name>>

\* _get_pattern_id_and_name(pattern, patterns); listed is what _get_patterns
\* returns when no list is passed
_get_pattern_id_and_name(pattern, patterns, listed) ==
    LET pats == IF patterns = <<>> THEN listed ELSE patterns IN
    IF pats = <<>> THEN <<None, None>>
    ELSE IF pattern \in Keys(pats)
         THEN LET name == _name_from_id(pats, pattern)
              IN  <<IF Truthy(name) THEN Str(pattern) ELSE None, name>>
         ELSE LET pid == _id_from_name(pats, pattern)
              IN  <<pid, IF Truthy(pid) THEN Str(pattern) ELSE None>>

\* a call of _get_pattern_id_and_name
get_pattern(pattern, patterns, listed) ==
    /\ lookup' = [n |-> 1, pattern |-> pattern,
                  patterns |-> IF patterns = <<>> THEN listed ELSE patterns,
                  result |-> _get_pattern_id_and_name(pattern, patterns, listed)]
    /\ UNCHANGED <<devicevars, brokervars, sessionvars, received, flashvars, topicvars, addressvars, enumvars, backupvars, setupvars>>

NextLookup ==
    \E pattern \in References, patterns \in PatternLists,
       listed \in {<<>>, <<<<"p1", "Rainbow">>>>} :
        get_pattern(pattern, patterns, listed)

SpecLookup == Init /\ [][NextLookup]_vars

Less(a, b) == a.num * b.den < b.num * a.den
Same(a, b) == a.num * b.den = b.num * a.den
\* Python's min(a, b) and max(a, b): the first argument unless the second
\* is smaller (greater)
min(a, b) == IF Less(b, a) THEN b ELSE a
max(a, b) == IF Less(a, b) THEN b ELSE a

\* a clamp that wraps around the interval
_clamp_wrap(n) == Number(n.num % (n.den + 1), n.den)

\* _clamp(n): max(0, min(float(n), 1))
_clamp(n) == max(Number(0, 1), min(n, Number(1, 1)))

\* a save value that is the argument whatever the permission
_get_save_value_as_passed(val) == val

\* _get_save_value(val): val if self.flash_save_enabled else False
_get_save_value(val) == IF flash_save_enabled THEN val ELSE FALSE

\* _enable_flash_save(value) and enable_flash_save(value)
_enable_flash_save(value) ==
    /\ flash_save_enabled' = value
    /\ UNCHANGED <<devicevars, brokervars, sessionvars, received, lookup, transmitted,
                   topicvars, addressvars, enumvars, backupvars, setupvars>>

\* _ws_send of a command with nothing to expect, the websocket being open:
\* await self.ws.send_json(msg)
send_json(cmd, arg, value, saveFlash) ==
    /\ ws
    /\ transmitted' = [cmd |-> cmd, arg |-> arg, value |-> value,
                       saveFlash |-> saveFlash, save |-> _get_save_value(saveFlash)]
    /\ UNCHANGED <<devicevars, brokervars, sessionvars, received, lookup,
                   flash_save_enabled, topicvars, addressvars, enumvars, backupvars, setupvars>>

\* setBrightness(n, saveFlash) up to the frame it sends
send_brightness(n, saveFlash) == send_json("brightness", n, _clamp(n), saveFlash)

\* LEDController.brightness(val): await self.setBrightness(float(val)/31.0)
scale == 31
brightness(val) == send_brightness(Number(val, scale), FALSE)

\* setControls(json_ctl, saveFlash), through which setControl and
\* setColorControl go, setDataspeed(speed, saveFlash) and
\* setpixelCount(num, saveFlash), up to the frame each sends
send_setting(cmd, saveFlash) == send_json(cmd, Number(1, 1), Number(1, 1), saveFlash)

\* the values of the controller, some of them out of its scale
Levels == (0 - MaxOver) .. (scale + MaxOver)

NextSet ==
    \/ \E value \in BOOLEAN : _enable_flash_save(value)
    \/ \E val \in Levels : brightness(val)
    \/ \E val \in Levels, saveFlash \in BOOLEAN :
           send_brightness(Number(val, scale), saveFlash)
    \/ \E cmd \in {"setControls", "dataSpeed", "pixelCount"}, saveFlash \in BOOLEAN :
           send_setting(cmd, saveFlash)

SpecSet == Init /\ [][NextSet]_vars

\* C19: the brightness sent is the argument clamped into [0, 1]: 0 for an
\* argument below 0, 1 for one above 1, the argument itself otherwise; so
\* on the scale of the controller 31 sends 1, 0 sends 0, a negative value
\* sends 0 and a value above 31 sends 1.
C19_BrightnessClamped ==
    transmitted.cmd = "brightness" =>
        LET n == transmitted.arg
            v == transmitted.value
        IN  /\ ~Less(v, Number(0, 1)) /\ ~Less(Number(1, 1), v)
            /\ Less(n, Number(0, 1)) => Same(v, Number(0, 1))
            /\ Less(Number(1, 1), n) => Same(v, Number(1, 1))
            /\ (~Less(n, Number(0, 1)) /\ ~Less(Number(1, 1), n)) => Same(v, n)
            /\ n.num = scale => Same(v, Number(1, 1))
            /\ n.num = 0 => Same(v, Number(0, 1))

\* the controller's 31, and a value above its scale, sent as 1
C19_Witness ==
    /\ transmitted.cmd = "brightness"
    /\ transmitted.arg.num >= scale
    /\ Same(transmitted.value, Number(1, 1))

\* C20: a command of a set operation carries save = true only when it is
\* sent while flash_save_enabled is set (flash saving was enabled and not
\* disabled since) and saveFlash was passed; so before any enabling the
\* save field is false whatever saveFlash is.
C20_SaveOnlyWhenEnabled ==
    [][(transmitted' # transmitted /\ transmitted'.save)
          => (flash_save_enabled /\ transmitted'.saveFlash)]_vars

\* saveFlash was passed while flash saving was not enabled, and the command
\* went out with save = false
C20_Witness ==
    /\ transmitted.cmd \in {"brightness", "setControls", "dataSpeed", "pixelCount"}
    /\ transmitted.saveFlash
    /\ ~transmitted.save
    /\ ~flash_save_enabled

\* ------------------------------------------------- the value of a single key
\* replies to getVars of patterns that export no, one and two variables
VarsShapes ==
    {[k \in {"vars"} |-> Dict(Empty)],
     [k \in {"vars"} |-> Dict([v \in {"a"} |-> Val(1)])],
     [k \in {"vars"} |-> Dict([v \in {"a", "b"} |-> Val(2)])]}

\* the command loop asks for the variables, for the state of the sequencer
\* and for the configuration
NextVars ==
    \/ \E r \in {getVars, runSequencerRequest, getConfig} : _ws_send("cmd", r)
    \/ _expect("cmd")
    \/ wait_for_timeout("cmd")
    \/ \E tm \in timers : call_later_pop(tm)
    \/ \E frame \in VarsShapes \cup {[k \in {"runSequencer"} |-> Val(1)],
                                     [k \in {"name", "activeProgram"} |-> Val(1)]} :
           ws_text(frame)
    \/ Tick

SpecVars == Init /\ [][NextVars]_vars

\* the value a frame carries under a key, as the caller of _ws_send gets it
Carried(frame, key) == IF frame[key].t = "dict" THEN Obj(frame[key].d) ELSE frame[key]

\* C21 (the claim as stated): getVars, when it returns with data, returns the
\* object that a frame carried under 'vars', whatever the number of
\* variables in it.
C21_SingleKeyValueAsCarried ==
    (pc["cmd"] = "done" /\ req["cmd"] = getVars /\ obs["cmd"].how = "data")
        => ret["cmd"] \in {Carried(frame, "vars") : frame \in VarsShapes}

\* ------------------------------------------------- the commands of the broker
\* the operation a message names: its topic, unless that is the address of
\* the session ('all'), else its payload
Named(msg) == IF msg.topic # "all" THEN msg.topic ELSE msg.payload

\* the public operations that are not blocked
Permitted == method_dict \ {"start", "stop", "subscribe", "start_ws"}

InitTopics == Fresh /\ Started /\ json_out \in BOOLEAN

\* the frames of the device, some with an object under a key
TopicFrames ==
    {[k \in {"brightness"} |-> Val(1)],
     [k \in {"brightness"} |-> Val(2)],
     [k \in {"vars"} |-> Dict([v \in {"a"} |-> Val(1)])],
     [k \in {"brightness", "vars"} |->
         IF k = "vars" THEN Dict([v \in {"a"} |-> Val(2)]) ELSE Val(1)]}

\* the device sends frames while the broker client connects, reconnects and
\* delivers messages
NextTopics ==
    \/ \E frame \in TopicFrames : ws_text_json_out(frame)
    \/ _decode_topics
    \/ _on_connect
    \/ _on_message(Msg("getVars", ""))

SpecTopics == InitTopics /\ [][NextTopics]_vars

\* C23 (the claim as stated): a step of a callback that runs on the thread of
\* the broker client (_on_message, _on_connect) changes nothing of the
\* session but the command queue: the history, the cache, the flags of the
\* requests and all else are left as they were.
C23_BrokerThreadOnlyQueues ==
    [][(_on_connect \/ \E msg \in Inbound : _on_message(msg))
          => UNCHANGED <<devicevars, mqttc, command, published, sessionvars, received,
                         lookup, flashvars, topicvars, addressvars, enumvars, backupvars, setupvars>>]_vars

\* the frames published as 'update'
Updates == {i \in DOMAIN published : published[i].topic = "update"}

\* C24 (the claim as stated): once the frames received have been handled,
\* each has been published as 'update'; with json_out set nothing else has
\* been published, and with json_out cleared (decomposed output) key/value
\* pairs have been published as well.
C24_UpdateAndDecomposed ==
    (decoding = <<>> /\ mqttc)
        => /\ Cardinality(Updates) = Len(received)
           /\ json_out => Len(published) = Len(received)
           /\ (~json_out /\ received # <<>>) => Len(published) > Len(received)

\* the message published last under a topic, None when there is none
LastPublished(topic) ==
    LET at == {i \in DOMAIN published : published[i].topic = topic} IN
    IF at = {} THEN None
    ELSE published[CHOOSE i \in at : \A j \in at : j <= i].message

\* C25 (the claim as stated): in decomposed mode a pair is published under a
\* composed key only when its value is not the value published last under
\* that key.
C25_PublishedOnlyWhenChanged ==
    [][(~json_out /\ published' # published)
          => LET pair == published'[Len(published')] IN
             LastPublished(pair.topic) # pair.message]_vars

\* ------------------------------------------------- a session with no address
\* __init__ with or without pixelblaze_ip; start() has not been called
InitAddress ==
    /\ Fresh
    /\ json_out = TRUE
    /\ mqttc = FALSE
    /\ ip \in BOOLEAN
    /\ starts = FALSE
    /\ ws = FALSE
    /\ tasks = NoTasks
    /\ running = {}
    /\ wstask = [i \in WsIds |-> "none"]
    /\ sock = 0
    /\ self_name = FALSE
    /\ setup = "none"
    /\ subscribed = ""
    /\ opened = FALSE

\* the application starts, connects, disconnects and stops the session
NextAddress ==
    \/ NextSession
    \/ \E i \in WsIds : ws_no_url(i)

SpecAddress == InitAddress /\ [][NextAddress]_vars

\* C28: with no address the session has no task made by start() and no open
\* or opening websocket of its own making, and a call of start() leaves the
\* tasks, the readers and the websocket as they were.
C28_NoAddressNeverStarts ==
    /\ [](~ip => /\ running = {}
                 /\ ~ws
                 /\ sock = 0
                 /\ \A i \in WsIds : wstask[i] # "connected")
    /\ [][(start /\ ~ip)
            => UNCHANGED <<tasks, running, wstask, ws, sock, auto_reconnect, _exit>>]_vars

\* start() has been called on a session with no address
C28_Witness ==
    /\ ~ip
    /\ starts
    /\ tasks = NoTasks
    /\ \A i \in WsIds : wstask[i] = "none"

\* ------------------------------------------------ the discovery of devices
\* PixelblazeEnumerator; time is counted in units of LIST_CHECK_INTERVAL
\* (5 s), so that DEVICE_TIMEOUT is 6 (30 s) unless it is set
LIST_CHECK_INTERVAL == 1
BEACON_PACKET == 42
TIMESYNC_PACKET == 43
SYNC_ID == 890
MaxTime == 8

\* what lies outside the enumerator
sessionside == <<ws, q_data, q_binary, json_q, binary_q, bin_data, cache, timers,
                 pc, req, loc, getters, ready, ret, obs, last, upload,
                 brokervars, sessionvars, received, lookup, flashvars, topicvars,
                 addressvars, backupvars, setupvars>>

\* a datagram is a sequence of 32 bit words; the address of a sender is
\* its id.  A beacon has three words, _pack_timesync makes five
SenderIds == {1, 2}
Beacon(sender_id, sender_time) == <<BEACON_PACKET, sender_id, sender_time>>
Timesync(id, time, sender_id, sender_time) ==
    <<TIMESYNC_PACKET, id, time, sender_id, sender_time>>
\* the datagrams that arrive: beacons, the time-sync packet of another
\* enumerator, and a packet of three words that carries the time-sync type
Datagrams ==
    {Beacon(i, 7) : i \in SenderIds}
    \cup {Timesync(891, 0, 1, 7), <<TIMESYNC_PACKET, 891, 0>>}

\* _unpack_beacon(data): struct.unpack("<LLL", data) raises unless data has
\* twelve bytes
_unpack_beacon(data) == IF Len(data) = 3 THEN data ELSE Raised("struct.error")

\* _pack_timesync(sender_id, sender_time)
_pack_timesync(sender_id, sender_time) == Timesync(SYNC_ID, now, sender_id, sender_time)

\* _process_data(data, addr), called by datagram_received: an exception is
\* logged, and then self.new_data stays cleared
_process_data(data, addr) ==
    /\ LET pkt == _unpack_beacon(data) IN
       IF pkt = Raised("struct.error")
       THEN /\ new_data' = FALSE
            /\ UNCHANGED <<devices, autoSync, sendto>>
       ELSE /\ new_data' = TRUE
            /\ IF pkt[1] = TIMESYNC_PACKET
               THEN /\ autoSync' = FALSE
                    /\ UNCHANGED <<devices, sendto>>
               ELSE IF pkt[1] = BEACON_PACKET
               THEN /\ devices' = Update(devices,
                                      [i \in {pkt[2]} |->
                                          [address |-> addr, timestamp |-> now,
                                           sender_id |-> pkt[2], sender_time |-> pkt[3]]])
                    /\ sendto' = IF autoSync
                                 THEN [n |-> 1 - sendto.n,
                                       data |-> _pack_timesync(pkt[2], pkt[3]),
                                       addr |-> addr]
                                 ELSE sendto
                    /\ UNCHANGED autoSync
               ELSE UNCHANGED <<devices, autoSync, sendto>>
    /\ heard' = (heard \/ data[1] = TIMESYNC_PACKET)
    /\ UNCHANGED <<now, DEVICE_TIMEOUT, sweep, sessionside>>

\* enableTimesync() and disableTimesync()
enableTimesync ==
    /\ autoSync' = TRUE
    /\ heard' = FALSE
    /\ UNCHANGED <<now, devices, DEVICE_TIMEOUT, new_data, sendto, sweep, sessionside>>
disableTimesync ==
    /\ autoSync' = FALSE
    /\ UNCHANGED <<now, devices, DEVICE_TIMEOUT, new_data, sendto, sweep, heard, sessionside>>

\* setDeviceTimeout(s)
setDeviceTimeout(s) ==
    /\ DEVICE_TIMEOUT' = s
    /\ UNCHANGED <<now, devices, autoSync, new_data, sendto, sweep, heard, sessionside>>

\* _updatePixelblazeList, the test of a record
expired_later(record) == now - record.timestamp > DEVICE_TIMEOUT + 1
expired(record) == now - record.timestamp >= DEVICE_TIMEOUT

\* _updatePixelblazeList from the end of one sleep to the next: the records
\* not seen for DEVICE_TIMEOUT are deleted
_updatePixelblazeList ==
    /\ sweep.left = 0
    /\ LET gone == {dev \in DOMAIN devices : expired(devices[dev])} IN
       /\ devices' = [dev \in DOMAIN devices \ gone |-> devices[dev]]
       /\ sweep' = [left |-> LIST_CHECK_INTERVAL, removed |-> gone]
    /\ UNCHANGED <<now, autoSync, DEVICE_TIMEOUT, new_data, sendto, heard, sessionside>>

\* a unit of time passes while the sweep sleeps
clock ==
    /\ sweep.left > 0
    /\ now < MaxTime
    /\ now' = now + 1
    /\ sweep' = [sweep EXCEPT !.left = @ - 1]
    /\ UNCHANGED <<devices, autoSync, DEVICE_TIMEOUT, new_data, sendto, heard, sessionside>>

\* getPixelblazeList(): the addresses of the records
getPixelblazeList == {devices[dev].address : dev \in DOMAIN devices}

\* the enumerator listens; beacons and other datagrams arrive while the
\* application sets the timeout and turns the time-sync on and off
NextEnum ==
    \/ \E data \in Datagrams : _process_data(data, IF Len(data) = 3 THEN data[2] ELSE 9)
    \/ enableTimesync
    \/ disableTimesync
    \/ \E s \in {2, 6} : setDeviceTimeout(s)
    \/ _updatePixelblazeList
    \/ clock

SpecEnum == Init /\ [][NextEnum]_vars

C27_DefersToOtherTimeSource ==
    [][sendto' # sendto => (autoSync /\ ~heard)]_vars

\* ------------------------------------------------- the backup of patterns
\* examples/backup_restore.py.  A dict is the sequence of its items, in the
\* order of insertion; d[k] = v
SetItem(items, k, v) ==
    IF \E i \in DOMAIN items : items[i][1] = k
    THEN [i \in DOMAIN items |-> IF items[i][1] = k THEN <<k, v>> ELSE items[i]]
    ELSE Append(items, <<k, v>>)

\* what lies outside the backup
backupside == <<ws, q_data, q_binary, json_q, binary_q, bin_data, cache, timers,
                pc, req, loc, getters, ready, ret, obs, last, upload,
                brokervars, sessionvars, received, lookup, flashvars, topicvars,
                addressvars, enumvars, setupvars>>

\* what GET /p/<pid> gives for each pattern: nothing (the request failed),
\* no byte or some bytes
Downloads == [PatternIds -> {None, Bytes(<<>>), Bytes(<<1>>), Bytes(<<2>>)}]
\* self.patterns, the patterns asked for by id or name: [] is all of them
Selections == {<<>>, <<"p1">>, <<"Rainbow">>, <<"p1", "Rainbow">>, <<"Fire", "p2">>}

\* the truth value of bytes: None and b'' are false
nonempty(binary) == binary # None /\ binary.b # <<>>

\* save_binary_file(pattern): the bytes of the answer, None when the pattern
\* is not found or the request fails
save_binary_file(pattern, listed, download) ==
    LET found == _get_pattern_id_and_name(pattern, <<>>, listed) IN
    IF Truthy(found[1]) /\ Truthy(found[2]) THEN download[found[1].of] ELSE None

\* get_backup_patterns, `if binary:`
kept_any(binary) == binary # None
kept(binary) == nonempty(binary)

\* get_backup_patterns, its loop over self.patterns: backup_patterns[pid] =
\* (name, binary) for each pattern that is found and has bytes
RECURSIVE get_backup_patterns(_, _, _, _)
get_backup_patterns(todo, listed, download, backup_patterns) ==
    IF todo = <<>> THEN backup_patterns
    ELSE LET found == _get_pattern_id_and_name(Head(todo), <<>>, listed) IN
         IF ~(Truthy(found[1]) /\ Truthy(found[2]))
         THEN get_backup_patterns(Tail(todo), listed, download, backup_patterns)
         ELSE LET pid == found[1].of
                  binary == save_binary_file(pid, listed, download) IN
              get_backup_patterns(Tail(todo), listed, download,
                  IF kept(binary)
                  THEN SetItem(backup_patterns, pid, <<found[2].of, binary>>)
                  ELSE backup_patterns)

\* json.dumps of a dict of strings and json.loads of the bytes of a member
json_dumps(items) == [t |-> "json", items |-> items]
json_loads(data) ==
    IF data.t = "json" THEN Dict(data.items) ELSE Raised("JSONDecodeError")

\* a member of the zip file, and myzip.read(name): the member of that name
\* written last
Member(filename, data) == [filename |-> filename, data |-> data]
read(zip, name) ==
    LET at == {i \in DOMAIN zip : zip[i].filename = name} IN
    IF at = {} THEN Raised("KeyError")
    ELSE zip[CHOOSE i \in at : \A j \in at : j <= i].data

\* backup_patterns(): index.txt and one member for each pattern; the
\* session that get_backup_patterns opens and stops again is left out.
\* The observer forgets the restore of an earlier archive
NoLoad == [n |-> 0, patterns |-> <<>>, pairs |-> {}]
backup_patterns(selection, listed, download) ==
    /\ LET todo == IF selection = <<>>
                   THEN [i \in DOMAIN listed |-> listed[i][1]]
                   ELSE selection
           bp == get_backup_patterns(todo, listed, download, <<>>) IN
       /\ archive' =
              <<Member("index.txt",
                       json_dumps([i \in DOMAIN bp |-> <<bp[i][1], bp[i][2][1]>>]))>>
              \o [i \in DOMAIN bp |-> Member(bp[i][1], bp[i][2][2])]
       /\ saved' = {<<bp[i][1], bp[i][2][2]>> : i \in DOMAIN bp}
    /\ loaded' = NoLoad
    /\ UNCHANGED backupside

\* the comprehension of get_patterns_to_restore:
\* {pid: name for p in self.patterns for pid, name in patterns.items()
\*  if p in [pid, name]}
RECURSIVE Chosen(_, _, _, _)
Chosen(patterns, items, i, result) ==
    IF patterns = <<>> THEN result
    ELSE IF i > Len(items) THEN Chosen(Tail(patterns), items, 1, result)
    ELSE Chosen(patterns, items, i + 1,
                IF Head(patterns) \in {items[i][1], items[i][2]}
                THEN SetItem(result, items[i][1], items[i][2])
                ELSE result)

\* {file.filename: 'Unknown' for file in myzip.infolist()}
RECURSIVE Unknown(_, _)
Unknown(zip, result) ==
    IF zip = <<>> THEN result
    ELSE Unknown(Tail(zip), SetItem(result, Head(zip).filename, "Unknown"))

\* get_patterns_to_restore(): the index, all of it or the patterns asked
\* for; with no index that can be read, every member of the file
get_patterns_to_restore(zip, patterns) ==
    LET patterns_txt == read(zip, "index.txt")
        index == IF patterns_txt = Raised("KeyError") THEN patterns_txt
                 ELSE json_loads(patterns_txt) IN
    IF index.t = "raised" THEN Unknown(zip, <<>>)
    ELSE IF patterns = <<>> THEN index.d
    ELSE Chosen(patterns, index.d, 1, <<>>)

\* read_binary_file(filename): no pattern file lies in the working directory
read_binary_file(filename) == <<None, None>>

\* filename.replace('.bin', ''): no id of a pattern holds '.bin'
programId(filename) == filename

\* load_binary_file(filename, binary) up to its POST: the (id, bytes) it
\* sends to the device, if any
posted(filename, binary) ==
    LET file == IF ~nonempty(binary) THEN read_binary_file(filename)
                ELSE <<programId(filename), binary>> IN
    IF ~nonempty(file[2]) THEN {} ELSE {file}

\* restore_pattern, its loop: load_binary_file for every pid but index.txt;
\* an exception ends the loop
RECURSIVE restoring(_, _, _)
restoring(items, zip, done) ==
    IF items = <<>> THEN done
    ELSE LET pid == Head(items)[1] IN
         IF pid = "index.txt" THEN restoring(Tail(items), zip, done)
         ELSE LET binary == read(zip, pid) IN
              IF binary = Raised("KeyError") THEN done
              ELSE restoring(Tail(items), zip, done \cup posted(pid, binary))

\* restore_pattern() with self.patterns = patterns, the file being a zip file
restore_pattern(patterns) ==
    /\ archive # <<>>
    /\ loaded' = [n |-> 1, patterns |-> patterns,
                  pairs |-> restoring(get_patterns_to_restore(archive, patterns),
                                      archive, {})]
    /\ UNCHANGED <<archive, saved, backupside>>

\* patterns of a device are backed up, and the file is restored to a device
NextBackup ==
    \/ \E selection \in Selections, listed \in PatternLists, download \in Downloads :
           backup_patterns(selection, listed, download)
    \/ \E patterns \in {<<>>, <<"p2">>, <<"Fire">>} : restore_pattern(patterns)

SpecBackup == Init /\ [][NextBackup]_vars

\* the entries of index.txt
Index == json_loads(read(archive, "index.txt")).d

\* C29: the index.txt of a backup has one entry for each pattern that was
\* backed up, and a restore of the whole file uploads the (id, binary) pairs
\* that were downloaded, no more and no less.
C29_BackupRoundTrip ==
    archive # <<>>
        => /\ Len(Index) = Cardinality(saved)
           /\ {Index[i][1] : i \in DOMAIN Index} = {pair[1] : pair \in saved}
           /\ Len(archive) = Cardinality(saved) + 1
           /\ (loaded.n = 1 /\ loaded.patterns = <<>>) => loaded.pairs = saved

\* two patterns were backed up and the whole file was restored
C29_Witness ==
    /\ Cardinality(saved) = 2
    /\ loaded.n = 1
    /\ loaded.patterns = <<>>
    /\ Cardinality(loaded.pairs) = 2

\* ------------------------------------------------ a START after a timeout
\* C30 (the claim as stated): when the first chunk of its type handed to a
\* binary request is flagged START, the value the request returns is the
\* value its chunks give to an empty accumulator, whatever an earlier
\* transfer that never ended has left in self.bin_data.
C30_StartDiscardsStale ==
    \A c \in Callers :
        (obs[c].sent /\ req[c].binary # 0 /\ req[c].expect = <<>>
            /\ pc[c] = "done" /\ obs[c].how = "data"
            /\ Typed(c) # <<>> /\ HasFlag(Typed(c)[1], START))
        => ret[c] = DrainBinary(None, req[c].binary, Typed(c), <<>>).bin

\* ------------------------------------------------- the value of a transfer
\* the chunks of a device whose transfers end with a value that is empty,
\* that begins with the byte of its type, or that is a list with no entry
EndChunks ==
    {<<thumbnail_jpg, START + END, 68>>,
     <<thumbnail_jpg, START + END, thumbnail_jpg, 65>>,
     <<thumbnail_jpg, START + END>>,
     <<program_list, START + END, 65, TAB, 66, NL>>,
     <<program_list, START + END, 65, NL>>}

\* one task alone asks for binary data that comes in one chunk
NextEnd ==
    \/ \E r \in {listPrograms, getPreviewImg} : _ws_send("cmd", r)
    \/ _expect("cmd")
    \/ wait_for_timeout("cmd")
    \/ \E chunk \in EndChunks : ws_binary(chunk)
    \/ \E tm \in timers : call_later_pop(tm)
    \/ Tick

SpecEnd == Init /\ [][NextEnd]_vars

\* what the chunks add to an accumulator
RECURSIVE Gathered(_, _)
Gathered(chunks, acc) ==
    IF chunks = <<>> THEN acc ELSE Gathered(Tail(chunks), Accumulate(acc, Head(chunks)))

\* C31 (the claim as stated): when a chunk of the awaited type flagged END
\* has been handed to a binary request that was issued with an empty
\* accumulator, the request has returned the finalized value of what was
\* accumulated, whatever its bytes are.
C31_EndCompletesRequest ==
    \A c \in Callers :
        (obs[c].sent /\ req[c].binary # 0 /\ req[c].expect = <<>> /\ obs[c].acc = None
            /\ \E i \in DOMAIN obs[c].fed :
                   obs[c].fed[i][1] = req[c].binary /\ HasFlag(obs[c].fed[i], END))
        => /\ pc[c] = "done"
           /\ obs[c].how = "data"
           /\ ret[c] = Finalized(req[c].binary, Gathered(Typed(c), <<>>))

\* ------------------------------------------------------- after disconnect()
\* C32 (the claim as stated): once disconnect() has returned, and until
\* connect() or start() is called, no reader of the session begins a
\* connection attempt, wherever the reader was when disconnect() was called.
C32_NoAttemptAfterDisconnect ==
    [][(session.disconnected /\ session'.disconnected)
          => \A i \in WsIds :
                 ~(wstask[i] # "connecting" /\ wstask'[i] = "connecting")]_vars

\* ------------------------------------------------------ one reader at a time
\* C33 (the claim as stated): at any time at most one reader of the session
\* is opening a connection, holds one or waits to reconnect.
C33_AtMostOneReader ==
    Cardinality({i \in WsIds : wstask[i] # "none"}) <= 1

\* ------------------------------------------------- frames of an earlier request
\* C34 (the claim as stated): a request that returned data took none of its
\* awaited keys from a frame that was in json_q when it was transmitted.
C34_NoStaleFrames ==
    \A c \in Callers : (pc[c] = "done" /\ obs[c].how = "data") => ~obs[c].stale

\* ------------------------------------------------- the cache after a failure
\* C35: a request that times out, or that is issued while the websocket is
\* not open, leaves the cache as it was; a value enters the cache only as
\* the value a request returns from the frames it was handed; and the same
\* cacheable request issued again after such a failure, with the websocket
\* open, is transmitted.  (One task issues the calls.)
C35_FailureStoresNothing ==
    [][/\ \A c \in Callers :
             (obs'[c] # obs[c] /\ obs'[c].how \in {"timeout", "closed"})
                => cache' = cache /\ last' = last
       /\ \A k \in MsgKeys :
             (cache'[k] # cache[k] /\ cache'[k] # None)
                => \E c \in Callers :
                      /\ InFlight(c) /\ pc'[c] = "done" /\ obs'[c].how = "data"
                      /\ req[c].key = k /\ ret'[c] = cache'[k]
       /\ \A c \in Callers :
             (Called(c) /\ obs[c].how \in {"timeout", "closed"}
                 /\ req[c].cache /\ req'[c] = req[c] /\ ws)
                => obs'[c].sent /\ obs'[c].how = "wait"]_vars

\* the configuration was asked for, one of its two keys came, the request
\* timed out, and the cache holds nothing
C35_Witness ==
    /\ pc["cmd"] = "done" /\ req["cmd"] = getConfig /\ req["cmd"].cache
    /\ obs["cmd"].how = "timeout" /\ obs["cmd"].got # {}
    /\ cache = NoCache /\ timers = {}

\* ------------------------------------------------- requests and the connection
\* C36: _ws_send transmits a frame only while the websocket is open; with
\* the websocket not open and no value cached under its key the request is
\* dropped: the call returns the no-result value at once, awaits nothing and
\* leaves the queues and flags as they were; and a request whose key has a
\* cached value returns that value and transmits nothing, open or not.
C36_SendsOnlyWhenConnected ==
    [][\A c \in Callers :
          Called(c) =>
             LET r == req'[c] IN
             /\ obs'[c].sent => ws
             /\ (~ws /\ cache[r.key] = None)
                   => /\ pc'[c] = "done" /\ ret'[c] = NoResult(r)
                      /\ ~obs'[c].sent /\ obs'[c].how = "closed"
                      /\ UNCHANGED <<q_data, q_binary, json_q, binary_q, getters, ready>>
             /\ cache[r.key] # None
                   => /\ pc'[c] = "done" /\ ret'[c] = cache[r.key]
                      /\ ~obs'[c].sent /\ obs'[c].how = "cache"
                      /\ UNCHANGED <<q_data, q_binary, json_q, binary_q, getters, ready>>]_vars

\* the configuration was answered from the cache after the websocket had
\* closed
C36_Witness ==
    /\ ~ws
    /\ pc["cmd"] = "done" /\ req["cmd"] = getConfig
    /\ obs["cmd"].how = "cache" /\ ~obs["cmd"].sent
    /\ ret["cmd"] = cache["getConfig"] /\ ret["cmd"] # None

\* ------------------------------------------------- commands and their requests
\* _execute_command: `value = await self.method_dict[command]()` for getVars,
\* up to the first await of its _ws_send that suspends, or to its return
method_call ==
    /\ command.at = "execute"
    /\ command.cmd = "getVars"
    /\ _ws_send_call("cmd", getVars)
    /\ command' = [command EXCEPT !.at = "await"]
    /\ UNCHANGED <<q, mqttc, published, sessionvars, received, lookup, flashvars,
                   topicvars, addressvars, enumvars, backupvars, setupvars>>

\* the method has returned into _execute_command and that into _process_q,
\* which publishes the value and goes on to its next get
method_return ==
    /\ command.at = "await"
    /\ pc["cmd"] = "done"
    /\ published' = published \o _publish(command.cmd, ret["cmd"])
    /\ command' = [command EXCEPT !.at = "get",
                                  !.failed = @ \/ obs["cmd"].how = "timeout"]
    /\ UNCHANGED <<devicevars, q, mqttc, sessionvars, received, lookup, flashvars,
                   topicvars, addressvars, enumvars, backupvars, setupvars>>

\* the broker delivers commands while the command loop runs them: getVars
\* asks the device, the other commands end as they can
NextLoop ==
    \/ \E msg \in Inbound : _on_message(msg)
    \/ \E msg \in Inbound : _process_q(msg)
    \/ method_call
    \/ method_return
    \/ \E out \in UNION {Returns(cmd) : cmd \in method_dict \ {"getVars"}} :
          command.cmd # "getVars" /\ _execute_command(out)
    \/ _expect("cmd")
    \/ wait_for_timeout("cmd")
    \/ \E frame \in VarsFrames : ws_text(frame)
    \/ ws_closed
    \/ Tick

SpecLoop == Init /\ [][NextLoop]_vars

\* C37: the broker's messages are taken from the queue in the order they
\* were put, one at a time: a message is taken only when the command of the
\* message before it has returned and its value has been handed to
\* _publish, and a request in flight belongs to the one command being run.
C37_OneCommandAtATime ==
    /\ [](InFlight("cmd") => command.at = "await")
    /\ [][/\ (q' # q)
             => (\/ /\ command' = command
                    /\ \E msg \in Inbound : q' = Append(q, msg)
                 \/ /\ q # <<>> /\ q' = Tail(q) /\ command'.msg = Head(q)
                    /\ command.at = "get" /\ ~InFlight("cmd"))
          /\ (command.at = "await" /\ command'.at = "get")
             => (/\ pc["cmd"] = "done"
                 /\ published' = published \o _publish(command.cmd, ret["cmd"])
                 /\ q' = q)]_vars

\* two messages wait in the queue while the request of the command taken
\* before them is in flight
C37_Witness ==
    /\ command.at = "await" /\ InFlight("cmd")
    /\ Len(q) = MaxInbox /\ q[1] # q[2]

\* ------------------------------------------------- the loop after a failure
\* the loop runs every task that is ready, and time passes
SpecLoopLive ==
    /\ SpecLoop
    /\ WF_vars(\E msg \in Inbound : _process_q(msg))
    /\ WF_vars(method_call)
    /\ WF_vars(method_return)
    /\ WF_vars(\E out \in UNION {Returns(cmd) : cmd \in method_dict} : _execute_command(out))
    /\ WF_vars(_expect("cmd"))
    /\ WF_vars(wait_for_timeout("cmd"))
    /\ WF_vars(Tick)

\* C38: a command that raises, times out or is invalid leaves the command
\* loop running: whatever the command does, the loop comes back to its get,
\* and it goes on taking the messages that are put on the queue, again and
\* again or until the queue is empty.
C38_LoopSurvivesFailures ==
    /\ (command.at # "get") ~> (command.at = "get")
    /\ \/ []<><<\E msg \in Inbound : _process_q(msg)>>_vars
       \/ []<>(command.at = "get" /\ q = <<>>)

\* after a message that failed, a later getVars was run, was answered by the
\* device and was published
C38_Witness ==
    /\ command.failed
    /\ command.at = "get" /\ command.cmd = "getVars"
    /\ obs["cmd"].how = "data" /\ published # <<>>

\* ------------------------------------------------- the making of the broker client
\* _setup_client: `await self._waitForWS()`, that is wait_for(
\* self.getWSConnected(), 0) in a loop.  With a timeout of 0 wait_for gives
\* up at once on the interpreters that cancel what is not done yet, and
\* _waitForWS returns False; on the others it returns when the websocket is
\* open.  _setup_client goes on either way.
_waitForWS(waited) ==
    /\ setup = "waitws"
    /\ waited => ws
    /\ setup' = "name"
    /\ UNCHANGED <<ws, requestvars, brokervars, sessionvars, received, lookup, flashvars,
                   topicvars, addressvars, enumvars, backupvars, self_name, subscribed, opened>>

\* _get_hardware_config, called in the loop of _setup_client or by the poll
\* loop, got the configuration from the device: `if result and not
\* self.name: self.name = result.get('name', self.name)`
_get_hardware_config ==
    /\ ws
    /\ ~self_name
    /\ setup = "name" \/ "_poll_status" \in running
    /\ self_name' = TRUE
    /\ UNCHANGED <<ws, requestvars, brokervars, sessionvars, received, lookup, flashvars,
                   topicvars, addressvars, enumvars, backupvars, setup, subscribed, opened>>

\* _setup_client past `while not self.name`: _connect_client() makes the
\* client and connects it unless there is a connected one; a socket.error
\* leaves self.mqttc None.  _setup_client ends, and setIP, if it ran it, returns.
_connect_client(ok) ==
    /\ setup = "name"
    /\ self_name
    /\ setup' = "none"
    /\ mqttc' = (mqttc \/ ok)
    /\ api' = IF api = "setIP" THEN "idle" ELSE api
    /\ UNCHANGED <<ws, requestvars, q, command, published, auto_reconnect, _exit, tasks,
                   running, wstask, sock, session, received, lookup, flashvars,
                   topicvars, addressvars, enumvars, backupvars, self_name, subscribed, opened>>

\* setIP(ip) with an address, called by the application once the
\* _setup_client of start() has ended: self.name = None; `if
\* self.getWSConnected()` tests a coroutine object, which is true, so
\* self.ws.close() is awaited: with no websocket it raises out of setIP,
\* else the websocket closes and setIP runs _setup_client itself
setIP ==
    /\ api = "idle"
    /\ setup = "none"
    /\ ip' = TRUE
    /\ self_name' = FALSE
    /\ IF ws
       THEN /\ ws' = FALSE
            /\ sock' = 0
            /\ setup' = "waitws"
            /\ api' = "setIP"
       ELSE UNCHANGED <<ws, sock, setup, api>>
    /\ UNCHANGED <<requestvars, brokervars, auto_reconnect, _exit, tasks, running, wstask,
                   session, received, lookup, flashvars, topicvars, starts, enumvars,
                   backupvars, subscribed, opened>>

\* a session that was made with an address and not started yet
InitSetup == InitAddress /\ ip

\* the application starts and stops the session and changes its address, the
\* transport opens and fails, and the broker client connects, and connects
\* again, on its own thread
NextSetup ==
    \/ start
    \/ _stop
    \/ _stop_closed
    \/ _stop_return
    \/ setIP
    \/ \E i \in WsIds : ws_connected(i)
    \/ \E i \in WsIds : ws_lost(i)
    \/ \E i \in WsIds : ws_reconnect(i)
    \/ \E waited \in BOOLEAN : _waitForWS(waited)
    \/ _get_hardware_config
    \/ \E ok \in BOOLEAN : _connect_client(ok)
    \/ _on_connect

SpecSetup == InitSetup /\ [][NextSetup]_vars

\* C39 (the claim as stated): the broker client is made only when the name
\* of the device is resolved and the websocket has connected since the
\* session was started, and _on_connect never subscribes to a topic made
\* from an unresolved name.
C39_ClientAfterName ==
    /\ [][(~mqttc /\ mqttc') => (self_name /\ opened)]_vars
    /\ [](subscribed # "None")

\* ------------------------------------------------------- start() once more
\* C40: a call of start() made while the session has tasks makes no task
\* and ends none: the tasks of the session, the reader of the websocket and
\* the connection are after the call what they were before it.
C40_StartIsIdempotent ==
    [][(session'.calls # session.calls /\ tasks # NoTasks)
          => UNCHANGED <<tasks, running, wstask, setup, auto_reconnect, _exit,
                         ws, sock, api, mqttc>>]_vars

\* start() was called on a session that runs all its tasks and is connected
C40_Witness ==
    /\ session.again
    /\ tasks.names = SessionTasks /\ running = SessionTasks
    /\ ws /\ \E i \in WsIds : tasks.ws = i /\ wstask[i] = "connected"

====
